---- MODULE Spec2Model ----
(***************************************************************************)
(* GraphQL schema parser of datamodel-code-generator                      *)
(* (src/datamodel_code_generator/parser/graphql.py): classification of    *)
(* the named types of a schema, translation of fields, construction of    *)
(* the Models and extraction of the directives, as a state machine.       *)
(*                                                                         *)
(* Names, paths and literals are strings; Python's None and graphql's     *)
(* Undefined are the marker strings None and Undefined, which are not     *)
(* GraphQL names.                                                          *)
(***************************************************************************)
EXTENDS Integers, Sequences, FiniteSets, TLC

VARIABLES
    source,                 \* self.source: the schema source(s) the parser was constructed on
    config,                 \* constructor arguments that the parse depends on
    pc,                     \* position of the parser: idle, resolve, build, directives, done, raised
    src_index,              \* index in iter_source of the source being processed
    next_type,              \* index in parse_order of the bucket being built
    obj_index,              \* index in that bucket of the next object to build
    raw_obj,                \* self.raw_obj: the schema built from the current source
    all_graphql_objects,    \* self.all_graphql_objects: name -> type object
    references,             \* self.references: name -> Reference
    support_graphql_types,  \* self.support_graphql_types: kind -> list of type objects
    results,                \* self.results: the Models built so far
    passes,                 \* number of parse_raw runs started on this parser
    created,                \* history: every Reference constructed in the current pass, with its declaration
    segments,               \* history: length of results at the start of the pass and after each source
    fpc,                    \* field translation: none, ready, returned, raised
    fin,                    \* field translation: the arguments and parser state of a parse_field call
    fout                    \* field translation: the field record the call returned

vars == <<source, config, pc, src_index, next_type, obj_index, raw_obj, all_graphql_objects, references,
          support_graphql_types, results, passes, created, segments, fpc, fin, fout>>

parserVars == <<source, config, pc, src_index, next_type, obj_index, raw_obj, all_graphql_objects, references,
                support_graphql_types, results, passes, created, segments>>

fieldVars == <<fpc, fin, fout>>

----------------------------------------------------------------------------
(* Bounds *)

MaxSources == 2     \* sources in one source group
MaxPasses == 2      \* parse_raw runs on one parser
MaxWrappers == 3    \* list / non-null wrappers around a named type

----------------------------------------------------------------------------
(* Markers and strings *)

None == "<None>"
Undefined == "<Undefined>"

Alphabet == "0123456789ABCDEFGHIJKLMNOPQRSTUVWXYZ_abcdefghijklmnopqrstuvwxyz"
Uppers == "ABCDEFGHIJKLMNOPQRSTUVWXYZ"
Lowers == "abcdefghijklmnopqrstuvwxyz"

CharRank(c) == CHOOSE i \in 1..Len(Alphabet) : SubSeq(Alphabet, i, i) = c

\* a < b in the order graphql-core sorts names by (names here carry no digits)
RECURSIVE StrLess(_, _)
StrLess(a, b) ==
    IF Len(b) = 0 THEN FALSE
    ELSE IF Len(a) = 0 THEN TRUE
    ELSE IF Head(a) = Head(b) THEN StrLess(Tail(a), Tail(b))
    ELSE CharRank(Head(a)) < CharRank(Head(b))

StartsWith(s, prefix) ==
    Len(s) >= Len(prefix) /\ SubSeq(s, 1, Len(prefix)) = prefix

\* ", ".join(repr(p) for p in parts)
RECURSIVE JoinRepr(_)
JoinRepr(parts) ==
    IF Len(parts) = 0 THEN ""
    ELSE IF Len(parts) = 1 THEN "'" \o parts[1] \o "'"
    ELSE "'" \o parts[1] \o "', " \o JoinRepr(Tail(parts))

\* str(list_of_strings)
StrOfList(parts) == "[" \o JoinRepr(parts) \o "]"

\* "/".join(parts)
RECURSIVE JoinSlash(_)
JoinSlash(parts) ==
    IF Len(parts) = 0 THEN ""
    ELSE IF Len(parts) = 1 THEN parts[1]
    ELSE parts[1] \o "/" \o JoinSlash(Tail(parts))

\* str(Path(*parts))
StrOfPath(parts) == IF Len(parts) = 0 THEN "." ELSE JoinSlash(parts)

Range(s) == {s[i] : i \in DOMAIN s}

SortByName(s) == SortSeq(s, LAMBDA p, q : StrLess(p.name, q.name))

SortStrings(s) == SortSeq(s, LAMBDA p, q : StrLess(p, q))

\* the elements of a finite set of named records, as a list sorted by name
RECURSIVE SetToSortedSeq(_)
SetToSortedSeq(S) ==
    IF S = {} THEN <<>>
    ELSE LET m == CHOOSE x \in S : \A y \in S : y.name = x.name \/ StrLess(x.name, y.name)
         IN <<m>> \o SetToSortedSeq(S \ {m})

----------------------------------------------------------------------------
(* GraphQL type system objects *)

TypeKind_SCALAR == "scalar"
TypeKind_ENUM == "enum"
TypeKind_INTERFACE == "interface"
TypeKind_OBJECT == "object"
TypeKind_INPUT_OBJECT == "input object"
TypeKind_UNION == "union"

\* a type reference: wrappers outermost first ("L" list, "N" non-null) around a named type
TypeRef(wrappers, name, kind) == [wrappers |-> wrappers, name |-> name, kind |-> kind]

\* cls: "field" GraphQLField, "input" GraphQLInputField, "arg" GraphQLArgument
Field(name, type, cls, default_value) ==
    [name |-> name, type |-> type, cls |-> cls, default_value |-> default_value]

NamedType(name, kind, fields, values, types, interfaces) ==
    [name |-> name, kind |-> kind, fields |-> fields, values |-> values,
     types |-> types, interfaces |-> interfaces]

ScalarType(name) == NamedType(name, TypeKind_SCALAR, <<>>, <<>>, <<>>, <<>>)
EnumType(name, values) == NamedType(name, TypeKind_ENUM, <<>>, values, <<>>, <<>>)
InterfaceType(name, fields) == NamedType(name, TypeKind_INTERFACE, fields, <<>>, <<>>, <<>>)
ObjectType(name, fields, interfaces) == NamedType(name, TypeKind_OBJECT, fields, <<>>, <<>>, interfaces)
InputObjectType(name, fields) == NamedType(name, TypeKind_INPUT_OBJECT, fields, <<>>, <<>>, <<>>)
UnionType(name, types) == NamedType(name, TypeKind_UNION, <<>>, <<>>, types, <<>>)

Directive(name, args, locations) == [name |-> name, args |-> args, locations |-> locations]

----------------------------------------------------------------------------
(* build_graphql_schema: graphql.build_schema, then lexicographic_sort_schema *)

builtin_scalars == {"String", "Int", "Float", "Boolean", "ID"}

\* the directives every schema carries, declared or not
specified_directives == <<
    Directive("skip", <<Field("if", TypeRef(<<"N">>, "Boolean", TypeKind_SCALAR), "arg", Undefined)>>,
              <<"FIELD", "FRAGMENT_SPREAD", "INLINE_FRAGMENT">>),
    Directive("include", <<Field("if", TypeRef(<<"N">>, "Boolean", TypeKind_SCALAR), "arg", Undefined)>>,
              <<"FIELD", "FRAGMENT_SPREAD", "INLINE_FRAGMENT">>),
    Directive("deprecated", <<Field("reason", TypeRef(<<>>, "String", TypeKind_SCALAR), "arg", "No longer supported")>>,
              <<"FIELD_DEFINITION", "ARGUMENT_DEFINITION", "INPUT_FIELD_DEFINITION", "ENUM_VALUE">>),
    Directive("specifiedBy", <<Field("url", TypeRef(<<"N">>, "String", TypeKind_SCALAR), "arg", Undefined)>>,
              <<"SCALAR">>) >>

\* the introspection types every schema carries (two of them stand for the eight)
introspection_types == <<
    ObjectType("__Schema", <<>>, <<>>),
    EnumType("__TypeKind", <<"SCALAR", "OBJECT">>) >>

\* names of the types that the fields of the types and the arguments of the directives refer to
ReferencedNames(types, directives) ==
    UNION ({{f.type.name : f \in Range(t.fields)} : t \in Range(types)}
           \cup {{a.type.name : a \in Range(d.args)} : d \in Range(directives)})

\* a sort of one named type that leaves its fields in the order of the declaration
SortNamedTypeKeepFields(t) ==
    [t EXCEPT !.values = SortStrings(t.values),
              !.types = SortStrings(t.types),
              !.interfaces = SortStrings(t.interfaces)]

\* lexicographic_sort_schema on one named type: fields, values, members and interfaces by name
SortNamedType(t) ==
    [t EXCEPT !.fields = SortByName(t.fields),
              !.values = SortStrings(t.values),
              !.types = SortStrings(t.types),
              !.interfaces = SortStrings(t.interfaces)]

SortDirective(d) ==
    [d EXCEPT !.args = SortByName(d.args), !.locations = SortStrings(d.locations)]

\* schema.directives: the declared directives and the specified ones not declared, sorted
SchemaDirectives(doc) ==
    LET declared == {d.name : d \in Range(doc.directives)}
        added == SelectSeq(specified_directives, LAMBDA d : d.name \notin declared)
        all == doc.directives \o added
    IN SortByName([i \in DOMAIN all |-> SortDirective(all[i])])

\* schema.type_map: the declared types, the built-in scalars in use (String and Boolean
\* always are, by the introspection types and the specified directives) and the
\* introspection types, sorted by name
SchemaTypeMap(doc) ==
    LET used == (ReferencedNames(doc.types, doc.directives) \cap builtin_scalars)
                    \cup {"String", "Boolean"}
        declared == SelectSeq(doc.types, LAMBDA t : t.name \notin builtin_scalars)
        scalars == SetToSortedSeq({ScalarType(n) : n \in used})
        all == declared \o scalars \o introspection_types
    IN SortByName([i \in DOMAIN all |-> SortNamedType(all[i])])

build_graphql_schema(schema_str) ==
    [type_map |-> SchemaTypeMap(schema_str), directives |-> SchemaDirectives(schema_str)]

----------------------------------------------------------------------------
(* The schema documents and sources the parser is run on *)

\* scalar Email  enum auth { USER ADMIN }  type Query { me: User }
\* type User { id: ID!  mail: Email  role: auth! }
\* directive @beta(level: auth!) on OBJECT | FIELD_DEFINITION
\* directive @auth(role: auth = USER) on FIELD_DEFINITION
DocA ==
    [types |-> <<
        ScalarType("Email"),
        EnumType("auth", <<"USER", "ADMIN">>),
        ObjectType("Query", <<Field("me", TypeRef(<<>>, "User", TypeKind_OBJECT), "field", Undefined)>>, <<>>),
        ObjectType("User", <<
            Field("id", TypeRef(<<"N">>, "ID", TypeKind_SCALAR), "field", Undefined),
            Field("mail", TypeRef(<<>>, "Email", TypeKind_SCALAR), "field", Undefined),
            Field("role", TypeRef(<<"N">>, "auth", TypeKind_ENUM), "field", Undefined)>>, <<>>) >>,
     directives |-> <<
        Directive("beta", <<Field("level", TypeRef(<<"N">>, "auth", TypeKind_ENUM), "arg", Undefined)>>,
                  <<"OBJECT", "FIELD_DEFINITION">>),
        Directive("auth", <<Field("role", TypeRef(<<>>, "auth", TypeKind_ENUM), "arg", "USER")>>,
                  <<"FIELD_DEFINITION">>) >>]

\* interface Node { id: ID! }  type Post implements Node { id: ID!  tags: [String!]! }
\* input Paging { limit: Int! = 100  from: Int }  union Item = Post
\* type Mutation { add: Post }  directive @auth on FIELD_DEFINITION
DocB ==
    [types |-> <<
        InterfaceType("Node", <<Field("id", TypeRef(<<"N">>, "ID", TypeKind_SCALAR), "field", Undefined)>>),
        ObjectType("Post", <<
            Field("id", TypeRef(<<"N">>, "ID", TypeKind_SCALAR), "field", Undefined),
            Field("tags", TypeRef(<<"N", "L", "N">>, "String", TypeKind_SCALAR), "field", Undefined)>>,
            <<"Node">>),
        InputObjectType("Paging", <<
            Field("limit", TypeRef(<<"N">>, "Int", TypeKind_SCALAR), "input", "100"),
            Field("from", TypeRef(<<>>, "Int", TypeKind_SCALAR), "input", Undefined)>>),
        UnionType("Item", <<"Post">>),
        ObjectType("Mutation", <<Field("add", TypeRef(<<>>, "Post", TypeKind_OBJECT), "field", Undefined)>>, <<>>) >>,
     directives |-> <<
        Directive("auth", <<>>, <<"FIELD_DEFINITION">>) >>]

\* type Probe { kind: __TypeKind }
DocD ==
    [types |-> <<
        ObjectType("Probe", <<Field("kind", TypeRef(<<>>, "__TypeKind", TypeKind_ENUM), "field", Undefined)>>,
                   <<>>) >>,
     directives |-> <<>>]

\* enum auth { A }  scalar Email  input Filter { who: auth  mail: Email = "" }
\* directive @tag(mail: Email) on FIELD_DEFINITION  directive @Email on SCALAR
DocC ==
    [types |-> <<
        EnumType("auth", <<"A">>),
        ScalarType("Email"),
        InputObjectType("Filter", <<
            Field("who", TypeRef(<<>>, "auth", TypeKind_ENUM), "input", Undefined),
            Field("mail", TypeRef(<<>>, "Email", TypeKind_SCALAR), "input", "")>>) >>,
     directives |-> <<
        Directive("tag", <<Field("mail", TypeRef(<<>>, "Email", TypeKind_SCALAR), "arg", Undefined)>>,
                  <<"FIELD_DEFINITION">>),
        Directive("Email", <<>>, <<"SCALAR">>) >>]

\* type User { id: ID!  name: String!  email: String }  enum Direction { ASC DESC }
\* type Test { in: String!  from: Int!  name: String! }
\* input TestInput { in: String!  from: Int!  name: String! }
\* directive @cache(if: Boolean! = true, for: Int) on OBJECT | FIELD_DEFINITION
DocE ==
    [types |-> <<
        ObjectType("User", <<
            Field("id", TypeRef(<<"N">>, "ID", TypeKind_SCALAR), "field", Undefined),
            Field("name", TypeRef(<<"N">>, "String", TypeKind_SCALAR), "field", Undefined),
            Field("email", TypeRef(<<>>, "String", TypeKind_SCALAR), "field", Undefined)>>, <<>>),
        EnumType("Direction", <<"ASC", "DESC">>),
        ObjectType("Test", <<
            Field("in", TypeRef(<<"N">>, "String", TypeKind_SCALAR), "field", Undefined),
            Field("from", TypeRef(<<"N">>, "Int", TypeKind_SCALAR), "field", Undefined),
            Field("name", TypeRef(<<"N">>, "String", TypeKind_SCALAR), "field", Undefined)>>, <<>>),
        InputObjectType("TestInput", <<
            Field("in", TypeRef(<<"N">>, "String", TypeKind_SCALAR), "input", Undefined),
            Field("from", TypeRef(<<"N">>, "Int", TypeKind_SCALAR), "input", Undefined),
            Field("name", TypeRef(<<"N">>, "String", TypeKind_SCALAR), "input", Undefined)>>) >>,
     directives |-> <<
        Directive("cache", <<
            Field("if", TypeRef(<<"N">>, "Boolean", TypeKind_SCALAR), "arg", "True"),
            Field("for", TypeRef(<<>>, "Int", TypeKind_SCALAR), "arg", Undefined)>>,
            <<"OBJECT", "FIELD_DEFINITION">>) >>]

\* enum Flags { out in_ in }  interface Entity { id: ID! }
\* interface Node implements Entity { id: ID! }
\* type Post implements Node & Entity { id: ID! }
\* directive @skip(if: Boolean!) on FIELD | FRAGMENT_SPREAD | INLINE_FRAGMENT
\* directive @deprecated(reason: String = "No longer supported") on FIELD_DEFINITION | ENUM_VALUE
DocF ==
    [types |-> <<
        EnumType("Flags", <<"out", "in_", "in">>),
        InterfaceType("Entity", <<Field("id", TypeRef(<<"N">>, "ID", TypeKind_SCALAR), "field", Undefined)>>),
        NamedType("Node", TypeKind_INTERFACE,
                  <<Field("id", TypeRef(<<"N">>, "ID", TypeKind_SCALAR), "field", Undefined)>>,
                  <<>>, <<>>, <<"Entity">>),
        ObjectType("Post", <<Field("id", TypeRef(<<"N">>, "ID", TypeKind_SCALAR), "field", Undefined)>>,
                   <<"Node", "Entity">>) >>,
     directives |-> <<
        Directive("skip", <<Field("if", TypeRef(<<"N">>, "Boolean", TypeKind_SCALAR), "arg", Undefined)>>,
                  <<"FIELD", "FRAGMENT_SPREAD", "INLINE_FRAGMENT">>),
        Directive("deprecated",
                  <<Field("reason", TypeRef(<<>>, "String", TypeKind_SCALAR), "arg", "No longer supported")>>,
                  <<"FIELD_DEFINITION", "ENUM_VALUE">>) >>]

\* type Clash { in: String  in_: Int }  type Other { typename__: String }
\* input ClashInput { from: Int  from_: Int! = 1 }  union Found = Other | Clash
\* directive @clash(from: Int, from_: Int! = 1) on FIELD_DEFINITION
DocG ==
    [types |-> <<
        ObjectType("Clash", <<
            Field("in", TypeRef(<<>>, "String", TypeKind_SCALAR), "field", Undefined),
            Field("in_", TypeRef(<<>>, "Int", TypeKind_SCALAR), "field", Undefined)>>, <<>>),
        ObjectType("Other", <<
            Field("typename__", TypeRef(<<>>, "String", TypeKind_SCALAR), "field", Undefined)>>, <<>>),
        InputObjectType("ClashInput", <<
            Field("from", TypeRef(<<>>, "Int", TypeKind_SCALAR), "input", Undefined),
            Field("from_", TypeRef(<<"N">>, "Int", TypeKind_SCALAR), "input", "1")>>),
        UnionType("Found", <<"Other", "Clash">>) >>,
     directives |-> <<
        Directive("clash", <<
            Field("from", TypeRef(<<>>, "Int", TypeKind_SCALAR), "arg", Undefined),
            Field("from_", TypeRef(<<"N">>, "Int", TypeKind_SCALAR), "arg", "1")>>,
            <<"FIELD_DEFINITION">>) >>]

\* enum auth { USER ADMIN }  input Grant { level: auth! }
\* directive @auth on FIELD_DEFINITION  directive @beta(level: auth!) on FIELD_DEFINITION
DocH ==
    [types |-> <<
        EnumType("auth", <<"USER", "ADMIN">>),
        InputObjectType("Grant", <<
            Field("level", TypeRef(<<"N">>, "auth", TypeKind_ENUM), "input", Undefined)>>) >>,
     directives |-> <<
        Directive("auth", <<>>, <<"FIELD_DEFINITION">>),
        Directive("beta", <<Field("level", TypeRef(<<"N">>, "auth", TypeKind_ENUM), "arg", Undefined)>>,
                  <<"FIELD_DEFINITION">>) >>]

Docs == {DocA, DocB, DocC, DocD, DocE, DocF, DocG, DocH}

\* Source(path, text)
Source(path_parts, text) == [path_parts |-> path_parts, text |-> text]

\* the schema files of a source directory
Files == {Source(<<"a.graphql">>, DocA), Source(<<"b.graphql">>, DocB),
          Source(<<"sub", "c.graphql">>, DocC), Source(<<"sub", "d.graphql">>, DocD)}

\* the lists of distinct files of length 1..MaxSources
FileLists ==
    {s \in UNION {[1..n -> Files] : n \in 1..MaxSources} :
        \A i, j \in DOMAIN s : i # j => s[i] # s[j]}

\* self.source with what iter_source yields for it: a schema text (one Source with an
\* empty path) or a group of files
Sources ==
    {[is_group |-> FALSE, iter_source |-> <<Source(<<>>, d)>>] : d \in Docs}
    \cup {[is_group |-> TRUE, iter_source |-> s] : s \in FileLists}

----------------------------------------------------------------------------
(* Constructor arguments (GraphQLParser.__init__) *)

\* no override given for a kind
NoType == None

\* the model type arguments of the constructor: none given, and those of the Strawberry
\* flavour
Flavours == {
    [data_model_type |-> NoType, data_model_scalar_type |-> NoType,
     data_model_union_type |-> NoType, data_model_input_type |-> NoType,
     data_model_enum_type |-> NoType, data_model_directive_type |-> NoType,
     data_model_field_type |-> NoType],
    [data_model_type |-> "strawberry.BaseModel", data_model_scalar_type |-> "strawberry.DataTypeScalar",
     data_model_union_type |-> "DataTypeUnion", data_model_input_type |-> "strawberry.Input",
     data_model_enum_type |-> "strawberry.Enum", data_model_directive_type |-> "strawberry.Directive",
     data_model_field_type |-> "strawberry.DataModelField"] }

\* a or b
OrElse(a, b) == IF a # NoType THEN a ELSE b

\* the attributes __init__ stores with the input type left without a fallback
InitConfigNoInputFallback(flavour, force_optional_for_required_fields) ==
    LET data_model_type == OrElse(flavour.data_model_type, "pydantic.BaseModel")
    IN [data_model_type |-> data_model_type,
        data_model_scalar_type |-> OrElse(flavour.data_model_scalar_type, "DataTypeScalar"),
        data_model_union_type |-> OrElse(flavour.data_model_union_type, "DataTypeUnion"),
        data_model_input_type |-> flavour.data_model_input_type,
        data_model_enum_type |-> OrElse(flavour.data_model_enum_type, "Enum"),
        data_model_directive_type |-> flavour.data_model_directive_type,
        data_model_field_type |-> OrElse(flavour.data_model_field_type, "pydantic.DataModelField"),
        force_optional_for_required_fields |-> force_optional_for_required_fields]

\* the attributes __init__ stores: an argument not given takes the default of the
\* signature, the input and enum types fall back, the directive type does not
InitConfig(flavour, force_optional_for_required_fields) ==
    LET data_model_type == OrElse(flavour.data_model_type, "pydantic.BaseModel")
    IN [data_model_type |-> data_model_type,
        data_model_scalar_type |-> OrElse(flavour.data_model_scalar_type, "DataTypeScalar"),
        data_model_union_type |-> OrElse(flavour.data_model_union_type, "DataTypeUnion"),
        data_model_input_type |-> OrElse(flavour.data_model_input_type, data_model_type),
        data_model_enum_type |-> OrElse(flavour.data_model_enum_type, "Enum"),
        data_model_directive_type |-> flavour.data_model_directive_type,
        data_model_field_type |-> OrElse(flavour.data_model_field_type, "pydantic.DataModelField"),
        force_optional_for_required_fields |-> force_optional_for_required_fields]

Configs == {InitConfig(f, b) : f \in Flavours, b \in BOOLEAN}

----------------------------------------------------------------------------
(* References and data types *)

Reference(path, name, original_name) ==
    [path |-> path, name |-> name, original_name |-> original_name]

\* DataType.reference of a data type that refers to no model
NoReference == Reference(None, None, None)

\* DataType(...): one node of a type descriptor; a descriptor is the list of its nodes from
\* the top one to the leaf, node i+1 being the only element of data_types of node i
DataType(is_optional, type, literals) ==
    [is_optional |-> is_optional, is_list |-> FALSE, reference |-> NoReference,
     type |-> type, literals |-> literals]

\* the field record a data_model_field_type(...) call constructs
DataModelField(name, default, data_type, required, alias, original_name, has_default, nullable) ==
    [name |-> name, default |-> default, data_type |-> data_type, required |-> required,
     alias |-> alias, original_name |-> original_name, has_default |-> has_default,
     nullable |-> nullable]

PyFalse == "False"

----------------------------------------------------------------------------
(* model_resolver: field and class names *)

python_keywords == {"False", "None", "True", "and", "as", "assert", "async", "await", "break",
                    "class", "continue", "def", "del", "elif", "else", "except", "finally",
                    "for", "from", "global", "if", "import", "in", "is", "lambda", "nonlocal",
                    "not", "or", "pass", "raise", "return", "try", "while", "with", "yield"}

\* the first of name_1, name_2, ... that is neither a keyword nor excluded
RECURSIVE Disambiguate(_, _, _)
Disambiguate(name, count, excludes) ==
    LET new_name == name \o "_" \o ToString(count)
    IN IF new_name \in python_keywords \/ new_name \in excludes
       THEN Disambiguate(name, count + 1, excludes)
       ELSE new_name

\* a valid identifier for a schema name: a leading underscore is prefixed, a reserved
\* identifier is suffixed, and a name already in use gets a numbered suffix
get_valid_field_name(field_name, excludes) ==
    LET prefixed == IF StartsWith(field_name, "_") THEN "field" \o field_name ELSE field_name
        name == IF prefixed \in python_keywords THEN prefixed \o "_" ELSE prefixed
    IN IF name \in python_keywords \/ name \in excludes
       THEN Disambiguate(name, 1, excludes)
       ELSE name

\* the valid identifier and, when it differs from the schema name, the schema name as alias
get_valid_field_name_and_alias(field_name, excludes) ==
    LET valid_name == get_valid_field_name(field_name, excludes)
    IN <<valid_name, IF field_name = valid_name THEN None ELSE field_name>>

UpperChar(c) ==
    IF \E i \in 1..Len(Lowers) : SubSeq(Lowers, i, i) = c
    THEN LET i == CHOOSE i \in 1..Len(Lowers) : SubSeq(Lowers, i, i) = c IN SubSeq(Uppers, i, i)
    ELSE c

\* the class name of a directive: the directive name in upper camel case
get_class_name(name) == UpperChar(Head(name)) \o Tail(name)

----------------------------------------------------------------------------
(* parse_field *)

\* the while loop with the nested node of a list opened non-optional
RECURSIVE UnwrapTypeStrictItems(_, _)
UnwrapTypeStrictItems(wrappers, nodes) ==
    IF wrappers = <<>> THEN nodes
    ELSE LET n == Len(nodes)
         IN IF Head(wrappers) = "L"
            THEN UnwrapTypeStrictItems(Tail(wrappers),
                     Append([nodes EXCEPT ![n].is_list = TRUE], DataType(FALSE, None, <<>>)))
            ELSE UnwrapTypeStrictItems(Tail(wrappers), [nodes EXCEPT ![n].is_optional = FALSE])

\* the while loop of parse_field: data_type is the last node; a list wrapper marks it a
\* list and opens a new optional node, a non-null wrapper clears is_optional on it
RECURSIVE UnwrapType(_, _)
UnwrapType(wrappers, nodes) ==
    IF wrappers = <<>> THEN nodes
    ELSE LET n == Len(nodes)
         IN IF Head(wrappers) = "L"
            THEN UnwrapType(Tail(wrappers),
                            Append([nodes EXCEPT ![n].is_list = TRUE], DataType(TRUE, None, <<>>)))
            ELSE UnwrapType(Tail(wrappers), [nodes EXCEPT ![n].is_optional = FALSE])

\* a resolution that keeps the raw type name next to the reference
ResolveNamedTypeBoth(nodes, obj, refs) ==
    LET n == Len(nodes)
    IN IF obj.name \in DOMAIN refs
       THEN [nodes EXCEPT ![n].reference = refs[obj.name], ![n].type = obj.name]
       ELSE [nodes EXCEPT ![n].type = obj.name]

\* the named type is resolved against the reference table, or kept as a raw type name
ResolveNamedType(nodes, obj, refs) ==
    LET n == Len(nodes)
    IN IF obj.name \in DOMAIN refs
       THEN [nodes EXCEPT ![n].reference = refs[obj.name]]
       ELSE [nodes EXCEPT ![n].type = obj.name]

\* self.references[obj.name] of an enum type that has no reference raises KeyError
ParseFieldRaises(field, refs) ==
    field.type.kind = TypeKind_ENUM /\ field.type.name \notin DOMAIN refs

has_default_value(field) ==
    field.cls \in {"input", "arg"} /\ field.default_value # Undefined

\* _get_default: the declared default of an input field or argument, None when it has
\* none and for output fields
get_default(field, final_data_type, required) ==
    IF field.cls \in {"input", "arg"}
    THEN IF field.default_value = Undefined THEN None ELSE field.default_value
    ELSE None

\* required without the look at the default value
RequiredIgnoringDefault(field, final_data_type, cfg) ==
    /\ ~cfg.force_optional_for_required_fields
    /\ ~final_data_type[1].is_optional

\* a field is required only if it is not optional and has no default value
RequiredOf(field, final_data_type, cfg) ==
    /\ ~cfg.force_optional_for_required_fields
    /\ ~final_data_type[1].is_optional
    /\ ~has_default_value(field)

\* nullable pinned for every field with a default, optional or not
NullableForAnyDefault(field, final_data_type) ==
    IF has_default_value(field) THEN PyFalse ELSE None

\* nullable is False for a non-null type with a default, None otherwise
NullableOf(field, final_data_type) ==
    IF has_default_value(field) /\ ~final_data_type[1].is_optional THEN PyFalse ELSE None

parse_field(field_name, alias, field, refs, cfg) ==
    LET final_data_type ==
            ResolveNamedType(UnwrapType(field.type.wrappers, <<DataType(TRUE, None, <<>>)>>),
                             field.type, refs)
        required == RequiredOf(field, final_data_type, cfg)
        default == get_default(field, final_data_type, required)
        nullable == NullableOf(field, final_data_type)
    IN DataModelField(field_name, default, final_data_type, required, alias, field_name,
                      default # None, nullable)

----------------------------------------------------------------------------
(* The builders: each returns the Model it appends to self.results *)

\* the Model a model class constructs; builder records which parse_* method made it
Model(impl, builder, reference, fields, base_classes, locations) ==
    [impl |-> impl, builder |-> builder, reference |-> reference, fields |-> fields,
     base_classes |-> base_classes, locations |-> locations]

typename_field(name) ==
    DataModelField("typename__", name, <<DataType(FALSE, None, <<name>>)>>,
                   FALSE, "__typename", None, TRUE, None)

parse_scalar(scalar_graphql_object, refs, cfg) ==
    Model(cfg.data_model_scalar_type, "parse_scalar", refs[scalar_graphql_object.name],
          <<>>, <<>>, <<>>)

\* value_name.translate(escape_characters): backslashes and quotes are escaped
RECURSIVE translate_escape_characters(_)
translate_escape_characters(s) ==
    IF Len(s) = 0 THEN ""
    ELSE LET c == SubSeq(s, 1, 1)
             escaped == IF c = "\\" THEN "\\\\" ELSE IF c = "'" THEN "\\'" ELSE c
         IN escaped \o translate_escape_characters(Tail(s))

\* the field names of parse_enum with nothing added to exclude_field_names
RECURSIVE EnumFieldNamesWithoutExcludes(_, _)
EnumFieldNamesWithoutExcludes(values, n) ==
    IF n = 0 THEN <<>>
    ELSE Append(EnumFieldNamesWithoutExcludes(values, n - 1), get_valid_field_name(values[n], {}))

\* the field names parse_enum gives the first n values, in order
RECURSIVE EnumFieldNames(_, _)
EnumFieldNames(values, n) ==
    IF n = 0 THEN <<>>
    ELSE LET before == EnumFieldNames(values, n - 1)
         IN Append(before, get_valid_field_name(values[n], Range(before)))

\* parse_enum with the value name as default, not quoted
parse_enum_unquoted(enum_object, refs, cfg) ==
    LET names == EnumFieldNames(enum_object.values, Len(enum_object.values))
        enum_fields == [i \in DOMAIN enum_object.values |->
            DataModelField(names[i], enum_object.values[i],
                           <<DataType(FALSE, "str", <<>>)>>, TRUE, None, None, TRUE, None)]
    IN Model(cfg.data_model_enum_type, "parse_enum", refs[enum_object.name],
             enum_fields, <<>>, <<>>)

parse_enum(enum_object, refs, cfg) ==
    LET names == EnumFieldNames(enum_object.values, Len(enum_object.values))
        enum_fields == [i \in DOMAIN enum_object.values |->
            DataModelField(names[i],
                           "'" \o translate_escape_characters(enum_object.values[i]) \o "'",
                           <<DataType(FALSE, "str", <<>>)>>, TRUE, None, None, TRUE, None)]
    IN Model(cfg.data_model_enum_type, "parse_enum", refs[enum_object.name],
             enum_fields, <<>>, <<>>)

\* the pairs of parse_object_like with nothing added to exclude_field_names
RECURSIVE ObjectFieldNamesWithoutExcludes(_, _)
ObjectFieldNamesWithoutExcludes(fields, n) ==
    IF n = 0 THEN <<>>
    ELSE Append(ObjectFieldNamesWithoutExcludes(fields, n - 1),
                get_valid_field_name_and_alias(fields[n].name, {}))

\* the <<name, alias>> pairs parse_object_like gives the first n fields, in order
RECURSIVE ObjectFieldNames(_, _)
ObjectFieldNames(fields, n) ==
    IF n = 0 THEN <<>>
    ELSE LET before == ObjectFieldNames(fields, n - 1)
         IN Append(before,
                   get_valid_field_name_and_alias(fields[n].name, {p[1] : p \in Range(before)}))

\* the names of parse_input_object and _parse_directives with the alias never set
RECURSIVE InputFieldNamesWithoutAlias(_, _)
InputFieldNamesWithoutAlias(fields, n) ==
    IF n = 0 THEN <<>>
    ELSE LET before == InputFieldNamesWithoutAlias(fields, n - 1)
             alias_name == get_valid_field_name(fields[n].name, {p[1] : p \in Range(before)})
         IN Append(before, <<alias_name, None>>)

\* the <<name, alias>> pairs parse_input_object and _parse_directives give the first n
\* fields or arguments, in order
RECURSIVE InputFieldNames(_, _)
InputFieldNames(fields, n) ==
    IF n = 0 THEN <<>>
    ELSE LET before == InputFieldNames(fields, n - 1)
             alias_name == get_valid_field_name(fields[n].name, {p[1] : p \in Range(before)})
         IN Append(before,
                   <<alias_name, IF alias_name # fields[n].name THEN fields[n].name ELSE None>>)

\* a field lookup or a base-class lookup of the builder raises KeyError
ObjectLikeRaises(obj, refs) ==
    \/ \E f \in Range(obj.fields) : ParseFieldRaises(f, refs)
    \/ \E i \in Range(obj.interfaces) : i \notin DOMAIN refs
    \/ obj.name \notin DOMAIN refs

\* parse_object_like with base_classes left empty
parse_object_like_without_bases(obj, refs, cfg, builder) ==
    LET names == ObjectFieldNames(obj.fields, Len(obj.fields))
        fields == [i \in DOMAIN obj.fields |->
                      parse_field(names[i][1], names[i][2], obj.fields[i], refs, cfg)]
    IN Model(cfg.data_model_type, builder, refs[obj.name],
             Append(fields, typename_field(obj.name)), <<>>, <<>>)

parse_object_like(obj, refs, cfg, builder) ==
    LET names == ObjectFieldNames(obj.fields, Len(obj.fields))
        fields == [i \in DOMAIN obj.fields |->
                      parse_field(names[i][1], names[i][2], obj.fields[i], refs, cfg)]
        base_classes == [i \in DOMAIN obj.interfaces |-> refs[obj.interfaces[i]]]
    IN Model(cfg.data_model_type, builder, refs[obj.name],
             Append(fields, typename_field(obj.name)), base_classes, <<>>)

parse_interface(interface_graphql_object, refs, cfg) ==
    parse_object_like(interface_graphql_object, refs, cfg, "parse_interface")

parse_object(graphql_object, refs, cfg) ==
    parse_object_like(graphql_object, refs, cfg, "parse_object")

\* parse_input_object without the __typename field
parse_input_object_without_typename(input_graphql_object, refs, cfg) ==
    LET names == InputFieldNames(input_graphql_object.fields, Len(input_graphql_object.fields))
        fields == [i \in DOMAIN input_graphql_object.fields |->
                      parse_field(names[i][1], names[i][2], input_graphql_object.fields[i], refs, cfg)]
    IN Model(cfg.data_model_input_type, "parse_input_object", refs[input_graphql_object.name],
             fields, <<>>, <<>>)

parse_input_object(input_graphql_object, refs, cfg) ==
    LET names == InputFieldNames(input_graphql_object.fields, Len(input_graphql_object.fields))
        fields == [i \in DOMAIN input_graphql_object.fields |->
                      parse_field(names[i][1], names[i][2], input_graphql_object.fields[i], refs, cfg)]
    IN Model(cfg.data_model_input_type, "parse_input_object", refs[input_graphql_object.name],
             Append(fields, typename_field(input_graphql_object.name)), <<>>, <<>>)

\* parse_union with the __typename field appended
parse_union_with_typename(union_object, refs, cfg) ==
    LET fields == [i \in DOMAIN union_object.types |->
                      DataModelField(union_object.types[i], None, <<DataType(FALSE, None, <<>>)>>,
                                     FALSE, None, None, FALSE, None)]
    IN Model(cfg.data_model_union_type, "parse_union", refs[union_object.name],
             Append(fields, typename_field(union_object.name)), <<>>, <<>>)

parse_union(union_object, refs, cfg) ==
    LET fields == [i \in DOMAIN union_object.types |->
                      DataModelField(union_object.types[i], None, <<DataType(FALSE, None, <<>>)>>,
                                     FALSE, None, None, FALSE, None)]
    IN Model(cfg.data_model_union_type, "parse_union", refs[union_object.name],
             fields, <<>>, <<>>)

\* mapper_from_graphql_type_to_parser_method
ParserMethod(kind, obj, refs, cfg) ==
    CASE kind = TypeKind_SCALAR -> parse_scalar(obj, refs, cfg)
      [] kind = TypeKind_ENUM -> parse_enum(obj, refs, cfg)
      [] kind = TypeKind_INTERFACE -> parse_interface(obj, refs, cfg)
      [] kind = TypeKind_OBJECT -> parse_object(obj, refs, cfg)
      [] kind = TypeKind_INPUT_OBJECT -> parse_input_object(obj, refs, cfg)
      [] kind = TypeKind_UNION -> parse_union(obj, refs, cfg)

\* the builder of the kind raises KeyError on the object
ParserMethodRaises(kind, obj, refs) ==
    CASE kind \in {TypeKind_INTERFACE, TypeKind_OBJECT} -> ObjectLikeRaises(obj, refs)
      [] kind = TypeKind_INPUT_OBJECT ->
            \/ \E f \in Range(obj.fields) : ParseFieldRaises(f, refs)
            \/ obj.name \notin DOMAIN refs
      [] OTHER -> obj.name \notin DOMAIN refs

\* parse_order with the objects ahead of the enums
parse_order_objects_first == <<TypeKind_SCALAR, TypeKind_OBJECT, TypeKind_ENUM, TypeKind_INTERFACE,
                               TypeKind_INPUT_OBJECT, TypeKind_UNION>>

parse_order == <<TypeKind_SCALAR, TypeKind_ENUM, TypeKind_INTERFACE, TypeKind_OBJECT,
                 TypeKind_INPUT_OBJECT, TypeKind_UNION>>

----------------------------------------------------------------------------
(* _resolve_types *)

EmptyMap == [n \in {} |-> None]

TypePath(paths, kind, name) == StrOfList(paths) \o "/" \o kind \o "/" \o name

\* the type is registered: object, reference, bucket entry (and the history of references)
RegisterType(st, paths, type_, src) ==
    LET ref == Reference(TypePath(paths, type_.kind, type_.name), type_.name, type_.name)
    IN [all_graphql_objects |-> (type_.name :> type_) @@ st.all_graphql_objects,
        references |-> (type_.name :> ref) @@ st.references,
        support_graphql_types |->
            [st.support_graphql_types EXCEPT ![type_.kind] = Append(@, type_)],
        created |-> Append(st.created, [src |-> src, decl |-> "type", name |-> type_.name, ref |-> ref])]

\* the loop body without the skip of the root operation types
ResolveTypeWithRoots(st, paths, type_, src) ==
    IF StartsWith(type_.name, "__") THEN st
    ELSE IF type_.name \in builtin_scalars
         THEN IF type_.kind = TypeKind_SCALAR THEN RegisterType(st, paths, type_, src) ELSE st
    ELSE IF type_.kind = TypeKind_SCALAR THEN st
    ELSE IF type_.kind \in DOMAIN st.support_graphql_types
         THEN RegisterType(st, paths, type_, src)
    ELSE st

\* one iteration of the loop over schema.type_map
ResolveType(st, paths, type_, src) ==
    IF StartsWith(type_.name, "__") THEN st
    ELSE IF type_.name \in {"Query", "Mutation"} THEN st
    ELSE IF type_.name \in builtin_scalars
         THEN IF type_.kind = TypeKind_SCALAR THEN RegisterType(st, paths, type_, src) ELSE st
    ELSE IF type_.kind = TypeKind_SCALAR THEN st
    ELSE IF type_.kind \in DOMAIN st.support_graphql_types
         THEN RegisterType(st, paths, type_, src)
    ELSE st

\* a classifier that registers the first type of the schema only
resolve_types_first_only(st, paths, type_map, src) ==
    IF type_map = <<>> THEN st
    ELSE ResolveType(st, paths, Head(type_map), src)

RECURSIVE resolve_types(_, _, _, _)
resolve_types(st, paths, type_map, src) ==
    IF type_map = <<>> THEN st
    ELSE resolve_types(ResolveType(st, paths, Head(type_map), src), paths, Tail(type_map), src)

----------------------------------------------------------------------------
(* _parse_directives *)

builtin_directives == {"skip", "include", "deprecated", "specifiedBy"}

\* a directive path that leaves the directive name out when there is a source path
DirectivePathWithoutName(current_source_path, directive_name) ==
    LET base_path == IF current_source_path # None THEN current_source_path ELSE ""
    IN IF base_path # "" THEN base_path ELSE directive_name

\* current_source_path is None for a schema text and the path of the file in a group
DirectivePath(current_source_path, directive_name) ==
    LET base_path == IF current_source_path # None THEN current_source_path ELSE ""
    IN IF base_path # "" THEN base_path \o "#" \o directive_name ELSE directive_name

\* the loop body without the skip of the built-in directives
ParseDirectiveWithBuiltins(st, directive, current_source_path, cfg, src) ==
    IF \E a \in Range(directive.args) : ParseFieldRaises(a, st.references)
    THEN [st EXCEPT !.raised = TRUE]
    ELSE LET names == InputFieldNames(directive.args, Len(directive.args))
             fields == [i \in DOMAIN directive.args |->
                           parse_field(names[i][1], names[i][2], directive.args[i],
                                       st.references, cfg)]
             reference == Reference(DirectivePath(current_source_path, directive.name),
                                    get_class_name(directive.name), directive.name)
         IN [references |-> (directive.name :> reference) @@ st.references,
             results |-> Append(st.results,
                                Model(cfg.data_model_directive_type, "_parse_directives",
                                      reference, fields, <<>>, directive.locations)),
             created |-> Append(st.created, [src |-> src, decl |-> "directive",
                                             name |-> directive.name, ref |-> reference]),
             raised |-> FALSE]

\* one iteration of the loop over schema.directives
ParseDirective(st, directive, current_source_path, cfg, src) ==
    IF directive.name \in builtin_directives THEN st
    ELSE IF \E a \in Range(directive.args) : ParseFieldRaises(a, st.references)
         THEN [st EXCEPT !.raised = TRUE]
    ELSE LET names == InputFieldNames(directive.args, Len(directive.args))
             fields == [i \in DOMAIN directive.args |->
                           parse_field(names[i][1], names[i][2], directive.args[i],
                                       st.references, cfg)]
             reference == Reference(DirectivePath(current_source_path, directive.name),
                                    get_class_name(directive.name), directive.name)
         IN [references |-> (directive.name :> reference) @@ st.references,
             results |-> Append(st.results,
                                Model(cfg.data_model_directive_type, "_parse_directives",
                                      reference, fields, <<>>, directive.locations)),
             created |-> Append(st.created, [src |-> src, decl |-> "directive",
                                             name |-> directive.name, ref |-> reference]),
             raised |-> FALSE]

RECURSIVE parse_directives(_, _, _, _, _)
parse_directives(st, directives, current_source_path, cfg, src) ==
    IF directives = <<>> \/ st.raised THEN st
    ELSE parse_directives(ParseDirective(st, Head(directives), current_source_path, cfg, src),
                          Tail(directives), current_source_path, cfg, src)

----------------------------------------------------------------------------
(* The parser: construction and parse_raw *)

EmptyBuckets ==
    [k \in {TypeKind_SCALAR, TypeKind_ENUM, TypeKind_UNION, TypeKind_INTERFACE,
            TypeKind_OBJECT, TypeKind_INPUT_OBJECT} |-> <<>>]

NoSchema == [type_map |-> <<>>, directives |-> <<>>]

\* GraphQLParser(source, ...): nothing parsed yet, results empty
Constructed(src, cfg) ==
    /\ source = src
    /\ config = cfg
    /\ pc = "idle"
    /\ src_index = 0
    /\ next_type = 0
    /\ obj_index = 0
    /\ raw_obj = NoSchema
    /\ all_graphql_objects = EmptyMap
    /\ references = EmptyMap
    /\ support_graphql_types = EmptyBuckets
    /\ results = <<>>
    /\ passes = 0
    /\ created = <<>>
    /\ segments = <<>>

Init ==
    /\ \E src \in Sources, cfg \in Configs : Constructed(src, cfg)
    /\ fpc = "none"
    /\ fin = <<>>
    /\ fout = <<>>

\* a new parser is constructed and replaces the one at hand
Construct ==
    /\ pc \in {"done", "raised"}
    /\ \E src \in Sources, cfg \in Configs :
        /\ source' = src
        /\ config' = cfg
    /\ pc' = "idle"
    /\ src_index' = 0
    /\ next_type' = 0
    /\ obj_index' = 0
    /\ raw_obj' = NoSchema
    /\ all_graphql_objects' = EmptyMap
    /\ references' = EmptyMap
    /\ support_graphql_types' = EmptyBuckets
    /\ results' = <<>>
    /\ passes' = 0
    /\ created' = <<>>
    /\ segments' = <<>>
    /\ UNCHANGED fieldVars

\* parse_raw that keeps the buckets of the pass before
ParseRawStartKeepBuckets ==
    /\ pc \in {"idle", "done", "raised"}
    /\ passes < MaxPasses
    /\ passes' = passes + 1
    /\ all_graphql_objects' = EmptyMap
    /\ references' = EmptyMap
    /\ src_index' = 1
    /\ pc' = "resolve"
    /\ created' = <<>>
    /\ segments' = <<Len(results)>>
    /\ UNCHANGED <<source, config, next_type, obj_index, raw_obj, results, support_graphql_types,
                   fieldVars>>

\* parse_raw, up to the loop over the sources
ParseRawStart ==
    /\ pc \in {"idle", "done", "raised"}
    /\ passes < MaxPasses
    /\ passes' = passes + 1
    /\ all_graphql_objects' = EmptyMap
    /\ references' = EmptyMap
    /\ support_graphql_types' = EmptyBuckets
    /\ src_index' = 1
    /\ pc' = "resolve"
    /\ created' = <<>>
    /\ segments' = <<Len(results)>>
    /\ UNCHANGED <<source, config, next_type, obj_index, raw_obj, results, fieldVars>>

\* the first position at or after <<k, i>> that holds an object, <<0, 0>> when there is none
RECURSIVE NextPosition(_, _, _)
NextPosition(buckets, k, i) ==
    IF k > Len(parse_order) THEN <<0, 0>>
    ELSE IF i <= Len(buckets[parse_order[k]]) THEN <<k, i>>
    ELSE NextPosition(buckets, k + 1, 1)

\* the iteration with a reference table that starts empty for every source
ResolveSourceFreshTable ==
    /\ pc = "resolve"
    /\ LET src == source.iter_source[src_index]
           schema == build_graphql_schema(src.text)
           st == resolve_types([all_graphql_objects |-> all_graphql_objects,
                                references |-> EmptyMap,
                                support_graphql_types |-> support_graphql_types,
                                created |-> created],
                               src.path_parts, schema.type_map, src_index)
           pos == NextPosition(st.support_graphql_types, 1, 1)
       IN /\ raw_obj' = schema
          /\ all_graphql_objects' = st.all_graphql_objects
          /\ references' = st.references
          /\ support_graphql_types' = st.support_graphql_types
          /\ created' = st.created
          /\ next_type' = pos[1]
          /\ obj_index' = pos[2]
          /\ pc' = IF pos[1] = 0 THEN "directives" ELSE "build"
    /\ UNCHANGED <<source, config, src_index, results, passes, segments, fieldVars>>

\* one iteration of the loop over the sources, up to the loop over parse_order:
\* the schema is built and its types are registered
ResolveSource ==
    /\ pc = "resolve"
    /\ LET src == source.iter_source[src_index]
           schema == build_graphql_schema(src.text)
           st == resolve_types([all_graphql_objects |-> all_graphql_objects,
                                references |-> references,
                                support_graphql_types |-> support_graphql_types,
                                created |-> created],
                               src.path_parts, schema.type_map, src_index)
           pos == NextPosition(st.support_graphql_types, 1, 1)
       IN /\ raw_obj' = schema
          /\ all_graphql_objects' = st.all_graphql_objects
          /\ references' = st.references
          /\ support_graphql_types' = st.support_graphql_types
          /\ created' = st.created
          /\ next_type' = pos[1]
          /\ obj_index' = pos[2]
          /\ pc' = IF pos[1] = 0 THEN "directives" ELSE "build"
    /\ UNCHANGED <<source, config, src_index, results, passes, segments, fieldVars>>

\* one iteration of the loops over parse_order and the bucket: the builder of the kind
\* is called on the object
ParseObject ==
    /\ pc = "build"
    /\ LET kind == parse_order[next_type]
           obj == support_graphql_types[kind][obj_index]
           pos == NextPosition(support_graphql_types, next_type, obj_index + 1)
       IN IF ParserMethodRaises(kind, obj, references)
          THEN /\ pc' = "raised"
               /\ UNCHANGED <<results, next_type, obj_index>>
          ELSE /\ results' = Append(results, ParserMethod(kind, obj, references, config))
               /\ next_type' = pos[1]
               /\ obj_index' = pos[2]
               /\ pc' = IF pos[1] = 0 THEN "directives" ELSE "build"
    /\ UNCHANGED <<source, config, src_index, raw_obj, all_graphql_objects, references,
                   support_graphql_types, passes, created, segments, fieldVars>>

\* self.current_source_path while a source is processed
CurrentSourcePath(src_obj, index) ==
    IF src_obj.is_group THEN StrOfPath(src_obj.iter_source[index].path_parts) ELSE None

\* the end of the iteration over a source: on to the next source, or parse_raw returns
EndOfSource ==
    /\ segments' = Append(segments, Len(results'))
    /\ IF src_index < Len(source.iter_source)
       THEN src_index' = src_index + 1 /\ pc' = "resolve"
       ELSE src_index' = src_index /\ pc' = "done"

\* the directives of the schema are parsed when a directive model type was given
ParseDirectives ==
    /\ pc = "directives"
    /\ config.data_model_directive_type # NoType
    /\ LET st == parse_directives([references |-> references, results |-> results,
                                   created |-> created, raised |-> FALSE],
                                  raw_obj.directives,
                                  CurrentSourcePath(source, src_index), config, src_index)
       IN /\ references' = st.references
          /\ results' = st.results
          /\ created' = st.created
          /\ IF st.raised
             THEN pc' = "raised" /\ UNCHANGED <<src_index, segments>>
             ELSE EndOfSource
    /\ UNCHANGED <<source, config, next_type, obj_index, raw_obj, all_graphql_objects,
                   support_graphql_types, passes, fieldVars>>

\* no directive model type: the directives are left alone
SkipDirectives ==
    /\ pc = "directives"
    /\ config.data_model_directive_type = NoType
    /\ UNCHANGED results
    /\ EndOfSource
    /\ UNCHANGED <<source, config, next_type, obj_index, raw_obj, all_graphql_objects,
                   references, support_graphql_types, passes, created, fieldVars>>

Next ==
    \/ Construct
    \/ ParseRawStart
    \/ ResolveSource
    \/ ParseObject
    \/ ParseDirectives
    \/ SkipDirectives

Spec == Init /\ [][Next]_vars

----------------------------------------------------------------------------
(* The Strawberry field model (model/strawberry/data_model_field.py) *)

RECURSIVE HasChar(_, _)
HasChar(s, c) ==
    IF Len(s) = 0 THEN FALSE
    ELSE SubSeq(s, 1, 1) = c \/ HasChar(Tail(s), c)

RECURSIVE EscapeBackslashes(_)
EscapeBackslashes(s) ==
    IF Len(s) = 0 THEN ""
    ELSE (IF SubSeq(s, 1, 1) = "\\" THEN "\\\\" ELSE SubSeq(s, 1, 1)) \o EscapeBackslashes(Tail(s))

\* repr() of a str: in single quotes, or in double quotes when it holds a single quote
\* and no double quote
repr_str(s) ==
    IF HasChar(s, "'") /\ ~HasChar(s, "\"")
    THEN "\"" \o EscapeBackslashes(s) \o "\""
    ELSE "'" \o translate_escape_characters(s) \o "'"

\* the default of the field record is a Python str: the value of a default of a type
\* other than Int, Float and Boolean, whose values are numbers and booleans written as
\* their literals
DefaultIsStr(f) ==
    LET leaf == f.data_type[Len(f.data_type)]
    IN f.default # None /\ leaf.reference.original_name \notin {"Int", "Float", "Boolean"}

\* DataModelFieldBase.represented_default: repr(self.default)
base_represented_default(f) ==
    IF f.default = None THEN "None"
    ELSE IF DefaultIsStr(f) THEN repr_str(f.default)
    ELSE f.default

\* reference.source is an enum Model: the Model constructed on the Reference
SourceIsEnum(reference, models) ==
    \E i \in DOMAIN models : models[i].reference = reference /\ models[i].builder = "parse_enum"

\* DataModelField.represented_default: a string default of a field that refers to an enum
\* is written as the member of the enum, any other default as the base class writes it
represented_default(f, models) ==
    LET enums == {x \in DOMAIN f.data_type :
                     /\ f.data_type[x].reference # NoReference
                     /\ SourceIsEnum(f.data_type[x].reference, models)}
    IN IF DefaultIsStr(f) /\ f.default # "" /\ enums # {}
       THEN LET first == CHOOSE x \in enums : \A y \in enums : x <= y
            IN repr_str(f.data_type[first].reference.name \o "." \o f.default)
       ELSE base_represented_default(f)

\* the field property that never writes the default
strawberry_field_without_default(f, models) ==
    IF f.alias # None /\ f.alias # ""
    THEN "strawberry.field(name='" \o f.alias \o "')"
    ELSE None

\* DataModelField.field: the strawberry.field(...) call of an aliased field, None for a
\* field without alias
strawberry_field(f, models) ==
    IF f.alias # None /\ f.alias # ""
    THEN IF /\ f.has_default
            /\ represented_default(f, models) # ""
            /\ represented_default(f, models) # "None"
         THEN "strawberry.field(name='" \o f.alias \o "', default="
                  \o represented_default(f, models) \o ")"
         ELSE "strawberry.field(name='" \o f.alias \o "')"
    ELSE None

----------------------------------------------------------------------------
(* Field translation on its own: parse_field applied to one field *)

\* the wrapper chains of at most MaxWrappers wrappers; non-null never wraps non-null
WrapperChains ==
    {w \in UNION {[1..n -> {"L", "N"}] : n \in 0..MaxWrappers} :
        \A i \in 1..(Len(w) - 1) : ~(w[i] = "N" /\ w[i + 1] = "N")}

\* the named types a field or an argument refers to: a built-in scalar, a custom scalar,
\* an enum and an introspection enum
FieldNamedTypes == {<<"String", TypeKind_SCALAR>>, <<"Email", TypeKind_SCALAR>>,
                    <<"auth", TypeKind_ENUM>>, <<"__TypeKind", TypeKind_ENUM>>}

\* the defaults a declaration can carry: none, null, the empty string, a value
DefaultValues == {Undefined, None, "", "ACTIVE"}

\* the field declarations a schema can hold: output fields carry no default, null is no
\* default value of a non-null type, the empty string is none of an enum
FieldDecls ==
    {Field(n, TypeRef(w, t[1], t[2]), c, d) :
        n \in {"limit", "from"}, w \in WrapperChains, t \in FieldNamedTypes,
        c \in {"field", "input", "arg"}, d \in DefaultValues}

ValidFieldDecl(f) ==
    /\ f.cls = "field" => f.default_value = Undefined
    /\ (f.type.wrappers # <<>> /\ f.type.wrappers[1] = "N") => f.default_value # None
    /\ f.type.kind = TypeKind_ENUM => f.default_value # ""

\* the reference table after the types of a schema text were registered
ReferencesOfTypes(doc) ==
    resolve_types([all_graphql_objects |-> EmptyMap, references |-> EmptyMap,
                   support_graphql_types |-> EmptyBuckets, created |-> <<>>],
                  <<>>, build_graphql_schema(doc).type_map, 1).references

\* the reference table after the directives of the schema text were parsed as well
ReferencesOfPass(doc, cfg) ==
    parse_directives([references |-> ReferencesOfTypes(doc), results |-> <<>>,
                      created |-> <<>>, raised |-> FALSE],
                     build_graphql_schema(doc).directives, None, cfg, 1).references

StrawberryConfig == CHOOSE c \in Configs :
    c.data_model_directive_type # NoType /\ ~c.force_optional_for_required_fields

ReferenceTables == {ReferencesOfTypes(DocA), ReferencesOfPass(DocC, StrawberryConfig)}

\* the calls of parse_field: the declaration, the name and alias its builder derived, the
\* reference table and the configuration at the call
FieldCalls ==
    {[field_name |-> get_valid_field_name_and_alias(f.name, {})[1],
      alias |-> get_valid_field_name_and_alias(f.name, {})[2],
      field |-> f, references |-> r, config |-> c] :
        f \in {g \in FieldDecls : ValidFieldDecl(g)}, r \in ReferenceTables, c \in Configs}

InitField ==
    /\ Constructed([is_group |-> FALSE, iter_source |-> <<Source(<<>>, DocA)>>], StrawberryConfig)
    /\ fpc = "ready"
    /\ \E call \in FieldCalls : fin = <<call>>
    /\ fout = <<>>

\* parse_field runs on the call: it returns a field record or raises KeyError
TranslateField ==
    /\ fpc = "ready"
    /\ LET call == fin[1]
       IN IF ParseFieldRaises(call.field, call.references)
          THEN fpc' = "raised" /\ fout' = <<>>
          ELSE /\ fpc' = "returned"
               /\ fout' = <<parse_field(call.field_name, call.alias, call.field,
                                        call.references, call.config)>>
    /\ UNCHANGED <<fin, parserVars>>

NextField == TranslateField

SpecField == InitField /\ [][NextField]_vars

----------------------------------------------------------------------------
(* Helpers of the properties *)

\* the position of a builder in the render order: the six buckets, then the directives
BuilderRank(builder) ==
    CASE builder = "parse_scalar" -> 1
      [] builder = "parse_enum" -> 2
      [] builder = "parse_interface" -> 3
      [] builder = "parse_object" -> 4
      [] builder = "parse_input_object" -> 5
      [] builder = "parse_union" -> 6
      [] builder = "_parse_directives" -> 7

\* the indices of results that the k-th source of the current pass appended (so far)
SegmentOf(k) ==
    (segments[k] + 1) .. (IF k < Len(segments) THEN segments[k + 1] ELSE Len(results))

\* the indices of results that the current pass appended (so far)
PassIndices == IF segments = <<>> THEN {} ELSE (segments[1] + 1) .. Len(results)

IsNamedTypeModel(m) == m.builder # "_parse_directives"

\* a name the classifier is to leave out: a root operation type or an introspection name
ExcludedName(n) == n \in {"Query", "Mutation"} \/ StartsWith(n, "__")

\* the schema of the k-th source
SchemaOf(k) == build_graphql_schema(source.iter_source[k].text)

\* the sources whose types have been registered in the current pass
ResolvedSources ==
    IF pc \in {"idle"} \/ segments = <<>> THEN {}
    ELSE IF pc = "resolve" THEN 1..(src_index - 1)
    ELSE 1..src_index

\* the sources the current pass is through with
FinishedSources == IF segments = <<>> THEN {} ELSE 1..(Len(segments) - 1)

\* the types of a schema the classifier is to register
ClassifiedTypes(schema) ==
    {t \in Range(schema.type_map) :
        /\ ~ExcludedName(t.name)
        /\ t.kind = TypeKind_SCALAR => t.name \in builtin_scalars}

\* the directives of a schema the extractor is to build
UserDirectives(schema) ==
    {d \in Range(schema.directives) : d.name \notin {"skip", "include", "deprecated", "specifiedBy"}}

CreatedFor(src, decl, name) ==
    {i \in DOMAIN created : created[i].src = src /\ created[i].decl = decl /\ created[i].name = name}

\* the step is a builder call of parse_raw that appended a Model
BuilderStep == pc = "build" /\ Len(results') = Len(results) + 1

\* the type object the builder is called on in a builder step
BuiltObject == support_graphql_types[parse_order[next_type]][obj_index]

\* the Model the builder appended in a builder step
BuiltModel == results'[Len(results')]

\* the step is a run of _parse_directives that returned
DirectiveStep ==
    pc = "directives" /\ config.data_model_directive_type # NoType /\ pc' # "raised"

\* the directives of the schema at hand other than the four built-in ones, in order
ExtractedDirectives ==
    SelectSeq(raw_obj.directives,
              LAMBDA d : d.name \notin {"skip", "include", "deprecated", "specifiedBy"})

\* the Models a run of _parse_directives appended
ExtractedModels == SubSeq(results', Len(results) + 1, Len(results'))

\* the declarations, in the sources of the parser, of a type object of a schema
DeclarationsOf(obj) ==
    {t \in UNION {Range(source.iter_source[k].text.types) : k \in DOMAIN source.iter_source} :
        /\ t.name = obj.name
        /\ t.kind = obj.kind
        /\ {f.name : f \in Range(t.fields)} = {f.name : f \in Range(obj.fields)}
        /\ Range(t.interfaces) = Range(obj.interfaces)}

\* the name a field record carries for the schema: its alias when it was renamed
SchemaName(f) == IF f.alias # None THEN f.alias ELSE f.name

\* the field records of a Model but the last one
DeclaredFieldsOf(m) == SubSeq(m.fields, 1, Len(m.fields) - 1)

ObjectLikeKinds == {TypeKind_INTERFACE, TypeKind_OBJECT, TypeKind_INPUT_OBJECT}

IsSynthetic(f) == f.name = "typename__" /\ f.alias = "__typename"

----------------------------------------------------------------------------
(* C1 *)

\* C1: within the Models one schema contributes to results, the builders appear in the
\* order scalars, enums, interfaces, objects, input objects, unions, and the directive
\* Models come after all the named-type Models.
BucketOrder ==
    \A k \in DOMAIN segments :
        \A i, j \in SegmentOf(k) :
            i < j => BuilderRank(results[i].builder) <= BuilderRank(results[j].builder)

\* a finished pass over one schema that appended input, union and directive Models
BucketOrderWitness ==
    /\ pc = "done"
    /\ Len(source.iter_source) = 1
    /\ \E i, j, k \in PassIndices :
        /\ results[i].builder = "parse_input_object"
        /\ results[j].builder = "parse_union"
        /\ results[k].builder = "_parse_directives"

----------------------------------------------------------------------------
(* C2 *)

\* the number of types the k-th source has the classifier register
ClassifiedCount(k) == Cardinality(ClassifiedTypes(SchemaOf(k)))

RECURSIVE SumClassified(_)
SumClassified(k) == IF k = 0 THEN 0 ELSE ClassifiedCount(k) + SumClassified(k - 1)

\* C2: in a finished parse pass, over one source or over a group of sources, every
\* classified type was built and appended exactly once: the pass appended as many
\* named-type Models as it classified types.
AppendedOnce ==
    pc = "done" =>
        Cardinality({i \in PassIndices : IsNamedTypeModel(results[i])})
            = SumClassified(Len(source.iter_source))

----------------------------------------------------------------------------
(* C3 *)

\* no two References constructed in a pass carry the same path
DistinctPaths ==
    \A i, j \in DOMAIN created : i # j => created[i].ref.path # created[j].ref.path

\* every classified type of every source a pass is through with received one Reference
TypesReferencedOnce ==
    \A k \in FinishedSources : \A t \in ClassifiedTypes(SchemaOf(k)) :
        Cardinality(CreatedFor(k, "type", t.name)) = 1

\* every user directive of every source a pass is through with received one Reference
DirectivesReferencedOnce ==
    \A k \in FinishedSources : \A d \in UserDirectives(SchemaOf(k)) :
        Cardinality(CreatedFor(k, "directive", d.name)) = 1

\* C3 as stated: in every pass every classified type and every non-built-in directive
\* receives exactly one Reference, and no two declarations get the same Reference path.
ReferenceUniquenessAsStated ==
    TypesReferencedOnce /\ DirectivesReferencedOnce /\ DistinctPaths

\* C3 amended: every classified type receives exactly one Reference; every non-built-in
\* directive receives exactly one when the parser was given a directive model type and
\* none otherwise; no two declarations get the same Reference path.
ReferenceUniqueness ==
    /\ TypesReferencedOnce
    /\ config.data_model_directive_type # NoType => DirectivesReferencedOnce
    /\ config.data_model_directive_type = NoType =>
          \A i \in DOMAIN created : created[i].decl = "type"
    /\ DistinctPaths

\* a finished pass over a group in which a type and a directive of one source, and two
\* types of different sources, share a name
ReferenceUniquenessWitness ==
    /\ pc = "done"
    /\ \E i, j \in DOMAIN created :
        /\ created[i].name = created[j].name
        /\ created[i].src = created[j].src
        /\ created[i].decl = "type" /\ created[j].decl = "directive"
    /\ \E i, j \in DOMAIN created :
        /\ created[i].name = created[j].name
        /\ created[i].src # created[j].src
        /\ created[i].decl = "type" /\ created[j].decl = "type"
        /\ ~created[i].name \in builtin_scalars

----------------------------------------------------------------------------
(* C4 *)

\* C4: a directive that shares its name with a type does not take the type's place in
\* the reference table: the name of a registered type keeps resolving to the Reference
\* of a type of that name, also after the directives were extracted.
TypeReferenceKept ==
    \A i \in DOMAIN created :
        created[i].decl = "type" =>
            \E j \in DOMAIN created :
                /\ created[j].decl = "type"
                /\ created[j].name = created[i].name
                /\ references[created[i].name] = created[j].ref

----------------------------------------------------------------------------
(* C5 *)

\* C5: when parse_raw has just started a pass, the reference table and the results
\* list hold nothing of an earlier pass.
ResetAtPassStart ==
    (pc = "resolve" /\ src_index = 1) => (references = EmptyMap /\ results = <<>>)

----------------------------------------------------------------------------
(* C6 *)

\* the names the classifier has registered, filled into buckets or built Models for
ClassifierNames ==
    DOMAIN all_graphql_objects
    \cup {created[i].name : i \in {j \in DOMAIN created : created[j].decl = "type"}}
    \cup UNION {{t.name : t \in Range(support_graphql_types[k])} : k \in DOMAIN support_graphql_types}
    \cup {results[i].reference.original_name :
            i \in {j \in DOMAIN results : IsNamedTypeModel(results[j])}}

\* C6: no Reference, bucket entry or Model of the classifier is for a root operation
\* type (Query, Mutation) or for a type whose name begins with "__".
RootsAndIntrospectionExcluded ==
    \A n \in ClassifierNames : ~ExcludedName(n)

\* a finished pass over a schema that declares Query and carries introspection types
RootsAndIntrospectionExcludedWitness ==
    /\ pc = "done"
    /\ \E t \in Range(raw_obj.type_map) : t.name = "Query"
    /\ \E t \in Range(raw_obj.type_map) : StartsWith(t.name, "__")
    /\ \E i \in PassIndices : results[i].builder = "parse_object"

----------------------------------------------------------------------------
(* C7 *)

IsCustomScalar(type) == type.kind = TypeKind_SCALAR /\ type.name \notin builtin_scalars

\* the fields and arguments a schema declares, each with the name of its owner
DeclaredFields(schema) ==
    UNION ({{<<t.name, f>> : f \in Range(t.fields)} : t \in Range(schema.type_map)}
           \cup {{<<d.name, a>> : a \in Range(d.args)} : d \in Range(schema.directives)})

LeafOf(field) == field.data_type[Len(field.data_type)]

\* the built-in scalars of the schema at hand are in the reference table once its types
\* were registered
BuiltinScalarsRegistered ==
    pc \in {"build", "directives"} =>
        \A t \in Range(raw_obj.type_map) :
            t.name \in builtin_scalars => t.name \in DOMAIN references

\* no custom scalar was registered, filled into a bucket or built
CustomScalarsSkipped ==
    /\ \A n \in DOMAIN all_graphql_objects : ~IsCustomScalar(all_graphql_objects[n])
    /\ \A t \in Range(support_graphql_types[TypeKind_SCALAR]) : t.name \in builtin_scalars
    /\ \A i \in DOMAIN results :
          results[i].builder = "parse_scalar" =>
              results[i].reference.original_name \in builtin_scalars
    /\ \A k \in ResolvedSources : \A t \in Range(SchemaOf(k).type_map) :
          IsCustomScalar(t) => CreatedFor(k, "type", t.name) = {}

\* the field record built for a field or argument that names a custom scalar carries
\* the scalar's name as raw type and no reference
CustomScalarFieldsRaw ==
    \A i \in PassIndices : \A x \in DOMAIN results[i].fields :
        \A k \in ResolvedSources : \A p \in DeclaredFields(SchemaOf(k)) :
            LET f == results[i].fields[x]
            IN (/\ p[1] = results[i].reference.original_name
                /\ p[2].name = f.original_name
                /\ IsCustomScalar(p[2].type))
               => (LeafOf(f).type = p[2].type.name /\ LeafOf(f).reference = NoReference)

\* C7: after classification the built-in scalars are registered with References; a
\* custom scalar receives no Reference and yields no Model, and a field naming a
\* custom scalar carries the raw type name.
ScalarRegistration ==
    BuiltinScalarsRegistered /\ CustomScalarsSkipped /\ CustomScalarFieldsRaw

----------------------------------------------------------------------------
(* C8 *)

\* the positions of the list wrappers in a wrapper chain, in order
ListPositions(wrappers) ==
    SelectSeq([i \in DOMAIN wrappers |-> i], LAMBDA i : wrappers[i] = "L")

\* the position in the chain at which the type of nesting level j starts
LevelStart(wrappers, j) == IF j = 1 THEN 1 ELSE ListPositions(wrappers)[j - 1] + 1

\* the type of nesting level j is wrapped in non-null
LevelNonNull(wrappers, j) ==
    LevelStart(wrappers, j) <= Len(wrappers) /\ wrappers[LevelStart(wrappers, j)] = "N"

\* C8: the type descriptor parse_field returns has one nested node per list wrapper,
\* every node but the leaf is a list, and a node is optional exactly when its type is
\* not wrapped in non-null; [String!]! gives a non-optional list of a non-optional
\* leaf, String gives one optional node that is no list.
WrapperNesting ==
    fpc = "returned" =>
        LET w == fin[1].field.type.wrappers
            nodes == fout[1].data_type
        IN /\ Len(nodes) = Len(ListPositions(w)) + 1
           /\ \A j \in DOMAIN nodes :
                /\ nodes[j].is_list = (j < Len(nodes))
                /\ nodes[j].is_optional = ~LevelNonNull(w, j)
           /\ w = <<"N", "L", "N">> =>
                /\ Len(nodes) = 2
                /\ ~nodes[1].is_optional /\ nodes[1].is_list
                /\ ~nodes[2].is_optional /\ ~nodes[2].is_list
           /\ w = <<>> =>
                Len(nodes) = 1 /\ nodes[1].is_optional /\ ~nodes[1].is_list

\* parse_field returned the field record of a [String!]! field
WrapperNestingWitness ==
    /\ fpc = "returned"
    /\ fin[1].field.type.wrappers = <<"N", "L", "N">>
    /\ fin[1].field.type.name = "String"
    /\ Len(fout[1].data_type) = 2

----------------------------------------------------------------------------
(* C9 *)

DeclaredNonNull(field) == field.type.wrappers # <<>> /\ field.type.wrappers[1] = "N"

\* the declaration carries a default: only input fields and arguments can
DeclaresDefault(field) == field.cls # "field" /\ field.default_value # Undefined

\* C9 as stated: required is True if and only if the top-level type is not optional
\* and the declaration carries no default value.
RequiredIffAsStated ==
    fpc = "returned" =>
        (fout[1].required <=> (DeclaredNonNull(fin[1].field) /\ ~DeclaresDefault(fin[1].field)))

\* C9 amended: required is True if and only if force_optional_for_required_fields is
\* off, the top-level type is not optional and the declaration carries no default
\* value; a field with a default is never required.
RequiredIff ==
    fpc = "returned" =>
        /\ fout[1].required <=>
              (/\ ~fin[1].config.force_optional_for_required_fields
               /\ DeclaredNonNull(fin[1].field)
               /\ ~DeclaresDefault(fin[1].field))
        /\ DeclaresDefault(fin[1].field) => ~fout[1].required

\* parse_field returned the record of a non-null input field with a default, and the
\* parser does not force fields optional
RequiredIffWitness ==
    /\ fpc = "returned"
    /\ fin[1].field.cls = "input"
    /\ DeclaredNonNull(fin[1].field)
    /\ fin[1].field.default_value = "ACTIVE"
    /\ ~fin[1].config.force_optional_for_required_fields
    /\ ~fout[1].required

----------------------------------------------------------------------------
(* C10 *)

\* C10: a field declared non-null with an explicit default has nullable False and
\* required False; every other field has nullable unset.
NullablePinned ==
    fpc = "returned" =>
        IF DeclaredNonNull(fin[1].field) /\ DeclaresDefault(fin[1].field)
        THEN fout[1].nullable = PyFalse /\ ~fout[1].required
        ELSE fout[1].nullable = None

\* parse_field returned the record of a non-null directive argument with a default
NullablePinnedWitness ==
    /\ fpc = "returned"
    /\ fin[1].field.cls = "arg"
    /\ fin[1].field.type.wrappers = <<"N">>
    /\ fin[1].field.default_value # Undefined
    /\ fout[1].nullable = PyFalse

----------------------------------------------------------------------------
(* C11 *)

\* C11: a field whose declaration carries no default gets default None and has_default
\* False; a field whose declaration carries a default, the empty string and null
\* included, gets that value as default and has_default True; an output field always
\* has no default.
DefaultMarker ==
    fpc = "returned" =>
        /\ ~DeclaresDefault(fin[1].field) =>
              (fout[1].default = None /\ ~fout[1].has_default)
        /\ DeclaresDefault(fin[1].field) =>
              (fout[1].default = fin[1].field.default_value /\ fout[1].has_default)
        /\ fin[1].field.cls = "field" =>
              (fout[1].default = None /\ ~fout[1].has_default)

----------------------------------------------------------------------------
(* C12 *)

\* C12: parse_field never fails on a field whose named type is not in the reference
\* table, whatever the kind of that type: it returns a field record that carries the
\* name as raw type and no reference.
AbsentTypeFallback ==
    (fpc # "ready" /\ fin[1].field.type.name \notin DOMAIN fin[1].references) =>
        /\ fpc = "returned"
        /\ LeafOf(fout[1]).type = fin[1].field.type.name
        /\ LeafOf(fout[1]).reference = NoReference

----------------------------------------------------------------------------
(* C13 *)

\* the Model carries one field record per field of the list, in the order of the list,
\* and one more record after them
FieldsFollow(m, fields) ==
    /\ Len(m.fields) = Len(fields) + 1
    /\ \A i \in DOMAIN fields : SchemaName(m.fields[i]) = fields[i].name

\* the required flags of the declared fields of a Model, in order
RequiredFlags(m) == [i \in DOMAIN DeclaredFieldsOf(m) |-> m.fields[i].required]

IsUserOfThreeFields(obj) ==
    obj.name = "User" /\ {f.name : f \in Range(obj.fields)} = {"id", "name", "email"}

\* C13 as stated: the fields of an object, interface or input Model follow the order of
\* the schema declaration, with one synthetic field after them; for type User { id: ID!
\* name: String! email: String } the declared fields are id, name, email with required
\* flags True, True, False.
FieldsInDeclarationOrder ==
    [][(BuilderStep /\ BuiltObject.kind \in ObjectLikeKinds) =>
          /\ \A t \in DeclarationsOf(BuiltObject) : FieldsFollow(BuiltModel, t.fields)
          /\ IsUserOfThreeFields(BuiltObject) =>
                /\ [i \in 1..3 |-> SchemaName(BuiltModel.fields[i])] = <<"id", "name", "email">>
                /\ RequiredFlags(BuiltModel) = <<TRUE, TRUE, FALSE>>]_vars

\* C13 amended: the fields of an object, interface or input Model follow the
\* lexicographic order of their schema names, in which build_graphql_schema puts them,
\* with one synthetic field after them; for type User { id: ID! name: String! email:
\* String } the declared fields are email, id, name, with required flags False, True,
\* True unless the parser forces fields optional.
FieldsInSortedOrder ==
    [][(BuilderStep /\ BuiltObject.kind \in ObjectLikeKinds) =>
          /\ FieldsFollow(BuiltModel, BuiltObject.fields)
          /\ \A t \in DeclarationsOf(BuiltObject) :
                {SchemaName(f) : f \in Range(DeclaredFieldsOf(BuiltModel))}
                    = {f.name : f \in Range(t.fields)}
          /\ \A i, j \in DOMAIN DeclaredFieldsOf(BuiltModel) :
                i < j => StrLess(SchemaName(BuiltModel.fields[i]), SchemaName(BuiltModel.fields[j]))
          /\ IsUserOfThreeFields(BuiltObject) =>
                /\ [i \in 1..3 |-> SchemaName(BuiltModel.fields[i])] = <<"email", "id", "name">>
                /\ IsSynthetic(BuiltModel.fields[4])
                /\ ~config.force_optional_for_required_fields =>
                      RequiredFlags(BuiltModel) = <<FALSE, TRUE, TRUE>>]_vars

\* the object Model of type User { id: ID! name: String! email: String } was appended by
\* a parser that does not force fields optional
FieldsInSortedOrderWitness ==
    /\ ~config.force_optional_for_required_fields
    /\ \E i \in PassIndices :
        /\ results[i].builder = "parse_object"
        /\ results[i].reference.original_name = "User"
        /\ Len(results[i].fields) = 4
        /\ results[i].fields[1].name = "email"
        /\ results[i].fields[3].required

----------------------------------------------------------------------------
(* C14 *)

\* the number of synthetic discriminator fields of a Model
SyntheticCount(m) == Cardinality({x \in DOMAIN m.fields : IsSynthetic(m.fields[x])})

\* C14: every object, interface and input Model ends with exactly one synthetic field
\* named typename__, with alias __typename, not required, whose value is fixed to the
\* name of the type, after all the declared fields; enum, union, scalar and directive
\* Models hold no such field.
SyntheticFieldLast ==
    \A i \in DOMAIN results :
        LET m == results[i]
        IN IF m.builder \in {"parse_interface", "parse_object", "parse_input_object"}
           THEN /\ Len(m.fields) >= 1
                /\ SyntheticCount(m) = 1
                /\ LET last == m.fields[Len(m.fields)]
                   IN /\ IsSynthetic(last)
                      /\ ~last.required
                      /\ last.default = m.reference.original_name
                      /\ last.has_default
                      /\ last.data_type[1].literals = <<m.reference.original_name>>
           ELSE SyntheticCount(m) = 0

\* a finished pass appended Models of every kind
SyntheticFieldLastWitness ==
    /\ pc = "done"
    /\ \A b \in {"parse_scalar", "parse_enum", "parse_interface", "parse_object",
                  "parse_input_object", "parse_union", "_parse_directives"} :
          \E i \in PassIndices : results[i].builder = b
    /\ \E i \in PassIndices :
          results[i].builder = "parse_input_object" /\ Len(results[i].fields) = 3

----------------------------------------------------------------------------
(* C15 *)

\* the reserved identifiers of the target language
ReservedIdentifiers == {"and", "as", "class", "def", "for", "from", "if", "import", "in",
                        "is", "not", "or", "pass", "return", "while", "with"}

\* the field record of a declared field or argument: a reserved schema name was replaced
\* by a valid identifier and is kept as alias, a name that was kept has no alias
RenameRecorded(decl, f) ==
    /\ decl.name \in ReservedIdentifiers =>
          /\ f.name # decl.name
          /\ f.name \notin ReservedIdentifiers
          /\ f.alias = decl.name
    /\ f.name # decl.name => f.alias = decl.name
    /\ f.name = decl.name => f.alias = None

\* C15: in the Models of the object, interface, input and directive builders, a declared
\* field or argument whose schema name is a reserved identifier is renamed to a valid
\* identifier and has the schema name as alias; a field that keeps its schema name has
\* no alias.
ReservedNamesAliased ==
    [][/\ (BuilderStep /\ BuiltObject.kind \in ObjectLikeKinds) =>
            /\ Len(BuiltModel.fields) = Len(BuiltObject.fields) + 1
            /\ \A i \in DOMAIN BuiltObject.fields :
                  RenameRecorded(BuiltObject.fields[i], BuiltModel.fields[i])
       /\ DirectiveStep =>
            /\ Len(ExtractedModels) = Len(ExtractedDirectives)
            /\ \A j \in DOMAIN ExtractedDirectives :
                  /\ Len(ExtractedModels[j].fields) = Len(ExtractedDirectives[j].args)
                  /\ \A i \in DOMAIN ExtractedDirectives[j].args :
                        RenameRecorded(ExtractedDirectives[j].args[i], ExtractedModels[j].fields[i])
      ]_vars

\* the field record of the Model of the builder that was renamed from the schema name
HasRenamed(builder, schema_name, valid_name) ==
    \E i \in PassIndices : \E x \in DOMAIN results[i].fields :
        /\ results[i].builder = builder
        /\ results[i].fields[x].alias = schema_name
        /\ results[i].fields[x].name = valid_name

\* a finished pass built an object, an input and a directive Model with fields named in
\* and if in the schema, next to a field that kept its name
ReservedNamesAliasedWitness ==
    /\ pc = "done"
    /\ HasRenamed("parse_object", "in", "in_")
    /\ HasRenamed("parse_input_object", "from", "from_")
    /\ HasRenamed("_parse_directives", "if", "if_")
    /\ \E i \in PassIndices : \E x \in DOMAIN results[i].fields :
        /\ results[i].builder = "parse_input_object"
        /\ results[i].fields[x].name = "name"
        /\ results[i].fields[x].alias = None

----------------------------------------------------------------------------
(* C16 *)

EnumStep == BuilderStep /\ BuiltObject.kind = TypeKind_ENUM

\* the names of the field records of a Model, in order
FieldNames(m) == [i \in DOMAIN m.fields |-> m.fields[i].name]

\* C16: the enum builder appends one enum Model with one field per value of the enum;
\* the field is named by a valid identifier, which is the name of the value when that
\* is valid and not in use, its default is the name of the value in quotes and it is
\* required; enum Direction { ASC DESC } gives the fields ASC and DESC with defaults
\* 'ASC' and 'DESC'.
EnumFields ==
    [][EnumStep =>
          /\ BuiltModel.builder = "parse_enum"
          /\ BuiltModel.impl = config.data_model_enum_type
          /\ Len(BuiltModel.fields) = Len(BuiltObject.values)
          /\ \A i \in DOMAIN BuiltObject.values :
                LET f == BuiltModel.fields[i]
                    value_name == BuiltObject.values[i]
                IN /\ f.name \notin ReservedIdentifiers
                   /\ (/\ value_name \notin ReservedIdentifiers
                       /\ \A j \in 1..(i - 1) : BuiltModel.fields[j].name # value_name)
                      => f.name = value_name
                   /\ f.default = "'" \o value_name \o "'"
                   /\ f.required
                   /\ f.has_default
          /\ BuiltObject.name = "Direction" =>
                /\ FieldNames(BuiltModel) = <<"ASC", "DESC">>
                /\ [i \in 1..2 |-> BuiltModel.fields[i].default] = <<"'ASC'", "'DESC'">>]_vars

\* the enum Model of enum Direction { ASC DESC } was appended
EnumFieldsWitness ==
    \E i \in PassIndices :
        /\ results[i].builder = "parse_enum"
        /\ results[i].reference.original_name = "Direction"
        /\ FieldNames(results[i]) = <<"ASC", "DESC">>
        /\ results[i].fields[1].default = "'ASC'"

----------------------------------------------------------------------------
(* C17 *)

\* the text between the quotes of a quoted literal
Unquoted(literal) == SubSeq(literal, 2, Len(literal) - 1)

DistinctFieldNames(m) ==
    \A i, j \in DOMAIN m.fields : i # j => m.fields[i].name # m.fields[j].name

\* C17 as stated: the fields the enum builder gives the values of an enum have
\* distinct names, also when two values sanitize to the same identifier, and the
\* original_name of each field is the schema name of its value.
EnumOriginalNamesAsStated ==
    [][EnumStep =>
          /\ DistinctFieldNames(BuiltModel)
          /\ \A i \in DOMAIN BuiltObject.values :
                BuiltModel.fields[i].original_name = BuiltObject.values[i]]_vars

\* C17 amended: the fields the enum builder gives the values of an enum have distinct
\* names, also when two values sanitize to the same identifier; original_name is None
\* on every enum field, and the schema name of the value is the default of the field
\* without its quotes.
EnumOriginalNames ==
    [][EnumStep =>
          /\ DistinctFieldNames(BuiltModel)
          /\ Len(BuiltModel.fields) = Len(BuiltObject.values)
          /\ \A i \in DOMAIN BuiltObject.values :
                /\ BuiltModel.fields[i].original_name = None
                /\ Unquoted(BuiltModel.fields[i].default) = BuiltObject.values[i]]_vars

\* the enum Model of enum Flags { out in_ in } was appended: the values in and in_ both
\* sanitize to in_
EnumOriginalNamesWitness ==
    \E i \in PassIndices :
        /\ results[i].builder = "parse_enum"
        /\ results[i].reference.original_name = "Flags"
        /\ FieldNames(results[i]) = <<"in_", "in__1", "out">>
        /\ [x \in 1..3 |-> Unquoted(results[i].fields[x].default)] = <<"in", "in_", "out">>

----------------------------------------------------------------------------
(* C18 *)

\* the schema names of the base classes of a Model, in order
BaseNames(m) == [i \in DOMAIN m.base_classes |-> m.base_classes[i].original_name]

\* C18 as stated: base_classes of a Model holds the References of the interfaces its
\* type declares, in the order of the declaration, each as the reference table has it;
\* only object types that declare interfaces have any, every other Model has none.
BaseClassesAsStated ==
    [][/\ BuilderStep =>
            /\ \A t \in DeclarationsOf(BuiltObject) : BaseNames(BuiltModel) = t.interfaces
            /\ \A i \in DOMAIN BuiltModel.base_classes :
                  BuiltModel.base_classes[i] = references[BaseNames(BuiltModel)[i]]
            /\ BuiltObject.kind # TypeKind_OBJECT => BuiltModel.base_classes = <<>>
       /\ DirectiveStep => \A j \in DOMAIN ExtractedModels : ExtractedModels[j].base_classes = <<>>
      ]_vars

\* C18 amended: base_classes of a Model holds the entries of the reference table for
\* the interfaces its type declares, in the lexicographic order of their names in which
\* build_graphql_schema puts them; object types and interface types that declare
\* interfaces have them, every other Model (scalar, enum, input object, union,
\* directive, type without interfaces) has none.
BaseClasses ==
    [][/\ BuilderStep =>
            /\ BaseNames(BuiltModel) = BuiltObject.interfaces
            /\ \A t \in DeclarationsOf(BuiltObject) :
                  Range(BaseNames(BuiltModel)) = Range(t.interfaces)
            /\ \A i, j \in DOMAIN BuiltModel.base_classes :
                  i < j => StrLess(BaseNames(BuiltModel)[i], BaseNames(BuiltModel)[j])
            /\ \A i \in DOMAIN BuiltModel.base_classes :
                  BuiltModel.base_classes[i] = references[BuiltObject.interfaces[i]]
            /\ BuiltObject.kind \notin {TypeKind_OBJECT, TypeKind_INTERFACE} =>
                  BuiltModel.base_classes = <<>>
       /\ DirectiveStep => \A j \in DOMAIN ExtractedModels : ExtractedModels[j].base_classes = <<>>
      ]_vars

\* a finished pass built the Models of type Post implements Node & Entity and of
\* interface Node implements Entity, next to the Model of interface Entity
BaseClassesWitness ==
    /\ pc = "done"
    /\ \E i \in PassIndices :
        /\ results[i].builder = "parse_object"
        /\ results[i].reference.original_name = "Post"
        /\ BaseNames(results[i]) = <<"Entity", "Node">>
        /\ results[i].base_classes[1].path = "[]/interface/Entity"
    /\ \E i \in PassIndices :
        /\ results[i].builder = "parse_interface"
        /\ BaseNames(results[i]) = <<"Entity">>
    /\ \E i \in PassIndices :
        /\ results[i].builder = "parse_interface"
        /\ results[i].reference.original_name = "Entity"
        /\ results[i].base_classes = <<>>

----------------------------------------------------------------------------
(* C19 *)

FourBuiltinDirectives == {"skip", "include", "deprecated", "specifiedBy"}

\* the names of the directive locations of GraphQL
LocationNames == {"QUERY", "MUTATION", "SUBSCRIPTION", "FIELD", "FRAGMENT_DEFINITION",
                  "FRAGMENT_SPREAD", "INLINE_FRAGMENT", "VARIABLE_DEFINITION", "SCHEMA",
                  "SCALAR", "OBJECT", "FIELD_DEFINITION", "ARGUMENT_DEFINITION", "INTERFACE",
                  "UNION", "ENUM", "ENUM_VALUE", "INPUT_OBJECT", "INPUT_FIELD_DEFINITION"}

\* the declarations of a directive name in the document of the source at hand
DirectiveDeclarations(name) ==
    {d \in Range(source.iter_source[src_index].text.directives) : d.name = name}

\* C19: the directive extractor yields no Model and no Reference for skip, include,
\* deprecated and specifiedBy; on a schema that holds only those it appends nothing,
\* and on any schema it appends exactly one Model per other directive, which carries
\* the allowed locations of the directive as a list of location names.
BuiltinDirectivesExcluded ==
    [][/\ \A i \in DOMAIN results' :
            results'[i].builder = "_parse_directives" =>
                results'[i].reference.original_name \notin FourBuiltinDirectives
       /\ \A i \in DOMAIN created' :
            created'[i].decl = "directive" => created'[i].name \notin FourBuiltinDirectives
       /\ BuilderStep => BuiltModel.builder # "_parse_directives"
       /\ DirectiveStep =>
            /\ Len(ExtractedModels) = Len(ExtractedDirectives)
            /\ \A j \in DOMAIN ExtractedDirectives :
                  /\ ExtractedModels[j].builder = "_parse_directives"
                  /\ ExtractedModels[j].reference.original_name = ExtractedDirectives[j].name
                  /\ ExtractedModels[j].locations = ExtractedDirectives[j].locations
                  /\ Range(ExtractedModels[j].locations) \subseteq LocationNames
                  /\ \A d \in DirectiveDeclarations(ExtractedDirectives[j].name) :
                        Range(ExtractedModels[j].locations) = Range(d.locations)
            /\ (\A d \in Range(raw_obj.directives) : d.name \in FourBuiltinDirectives) =>
                  results' = results
      ]_vars

\* a finished pass, with a directive model type, over a schema that declares @skip and
\* @deprecated and no other directive: Models of its types and none of a directive
BuiltinDirectivesExcludedWitness ==
    /\ pc = "done"
    /\ config.data_model_directive_type # NoType
    /\ \E d \in Range(source.iter_source[1].text.directives) : d.name = "deprecated"
    /\ \E d \in Range(source.iter_source[1].text.directives) : d.name = "skip"
    /\ Len(raw_obj.directives) = 4
    /\ \A d \in Range(raw_obj.directives) : d.name \in FourBuiltinDirectives
    /\ PassIndices # {}
    /\ \A i \in DOMAIN results : results[i].builder # "_parse_directives"

----------------------------------------------------------------------------
(* C20 *)

NamedTypeBuilders == {"parse_scalar", "parse_enum", "parse_interface", "parse_object",
                      "parse_input_object", "parse_union"}

\* the builder that parse_raw calls on the types of a kind
BuilderOfKind(kind) ==
    CASE kind = TypeKind_SCALAR -> "parse_scalar"
      [] kind = TypeKind_ENUM -> "parse_enum"
      [] kind = TypeKind_INTERFACE -> "parse_interface"
      [] kind = TypeKind_OBJECT -> "parse_object"
      [] kind = TypeKind_INPUT_OBJECT -> "parse_input_object"
      [] kind = TypeKind_UNION -> "parse_union"

\* the constructor arguments the parser at hand can have been given
GivenFlavours == {f \in Flavours : \E b \in BOOLEAN : config = InitConfig(f, b)}

\* the implementation the Models of a builder are to have: the override of the flavour,
\* or the generic implementation of the kind when the flavour gives none
ExpectedImpl(builder, f) ==
    LET generic_model == IF f.data_model_type # NoType THEN f.data_model_type
                         ELSE "pydantic.BaseModel"
    IN CASE builder = "parse_scalar" ->
                IF f.data_model_scalar_type # NoType THEN f.data_model_scalar_type
                ELSE "DataTypeScalar"
         [] builder = "parse_enum" ->
                IF f.data_model_enum_type # NoType THEN f.data_model_enum_type ELSE "Enum"
         [] builder \in {"parse_interface", "parse_object"} -> generic_model
         [] builder = "parse_input_object" ->
                IF f.data_model_input_type # NoType THEN f.data_model_input_type
                ELSE generic_model
         [] builder = "parse_union" ->
                IF f.data_model_union_type # NoType THEN f.data_model_union_type
                ELSE "DataTypeUnion"

\* the Models of results that a builder made while the first source was processed
BuiltOfFirstSource(builder) == {i \in SegmentOf(1) : results[i].builder = builder}

\* the pass is just through with its first source
FirstSourceThrough == Len(segments) = 2 /\ pc \in {"resolve", "done"}

\* the Models of the named types have the override or the generic implementation, and
\* every classified type of the first source of a pass got its Model
NamedTypesBuilt(f) ==
    /\ \A i \in DOMAIN results :
          results[i].builder \in NamedTypeBuilders =>
              /\ results[i].impl # NoType
              /\ results[i].impl = ExpectedImpl(results[i].builder, f)
    /\ FirstSourceThrough =>
          LET classified == ClassifiedTypes(SchemaOf(1))
          IN \A b \in NamedTypeBuilders :
                Cardinality(BuiltOfFirstSource(b))
                    = Cardinality({t \in classified : BuilderOfKind(t.kind) = b})

\* every directive of the first source of a pass got its Model, of an implementation
DirectivesBuilt ==
    /\ \A i \in DOMAIN results :
          results[i].builder = "_parse_directives" => results[i].impl # NoType
    /\ FirstSourceThrough =>
          Cardinality(BuiltOfFirstSource("_parse_directives"))
              = Cardinality(UserDirectives(SchemaOf(1)))

\* C20 as stated: for object, input, enum, union, scalar and directive alike, the Models
\* of the kind are built and appended also when the flavour gives no override for the
\* kind, with a generic implementation in its place.
FallbackModelsAsStated ==
    \A f \in GivenFlavours : NamedTypesBuilt(f) /\ DirectivesBuilt

\* C20 amended: for object, input, enum, union and scalar, the Models of the kind are
\* built and appended also when the flavour gives no override for the kind, with a
\* generic implementation in its place (the object implementation for input); for
\* directive there is no fallback: without an override no directive Model is built,
\* with one every directive is built with it.
FallbackModels ==
    \A f \in GivenFlavours :
        /\ NamedTypesBuilt(f)
        /\ IF f.data_model_directive_type = NoType
           THEN \A i \in DOMAIN results : results[i].builder # "_parse_directives"
           ELSE /\ DirectivesBuilt
                /\ \A i \in DOMAIN results :
                      results[i].builder = "_parse_directives" =>
                          results[i].impl = f.data_model_directive_type

\* a finished pass of a parser that was given no model type at all, over sources that
\* declare types of every kind and a directive: Models of the generic implementations
\* and no directive Model
FallbackModelsWitness ==
    /\ pc = "done"
    /\ \E f \in GivenFlavours :
          \A a \in DOMAIN f : f[a] = NoType
    /\ UserDirectives(SchemaOf(1)) # {}
    /\ \A b \in NamedTypeBuilders : \E i \in PassIndices : results[i].builder = b
    /\ \E i \in PassIndices :
          results[i].builder = "parse_input_object" /\ results[i].impl = "pydantic.BaseModel"
    /\ \E i \in PassIndices :
          results[i].builder = "parse_enum" /\ results[i].impl = "Enum"
    /\ \A i \in PassIndices : results[i].builder # "_parse_directives"

----------------------------------------------------------------------------
(* C21 *)

\* the Models the current pass appended (so far), in order
PassModels == SubSeq(results, segments[1] + 1, Len(results))

\* the list is a whole number of repetitions of its last n elements
RepeatsTail(list, n) ==
    IF n = 0 THEN list = <<>>
    ELSE /\ Len(list) % n = 0
         /\ \A i \in 1..(Len(list) - n) : list[i] = list[i + n]

\* C21: parsing is deterministic: every parse pass of a parser, over the same sources
\* with the same configuration and from the state parse_raw resets, yields the same
\* sequence of Models as the passes before it, field by field in the same order and with
\* the synthetic field in the same place; a pass that fails does so at the same Model.
Determinism ==
    (pc \in {"done", "raised"} /\ passes >= 1) =>
        /\ Len(results) = passes * Len(PassModels)
        /\ RepeatsTail(results, Len(PassModels))

\* the second pass of a parser over a group of two sources is through: it appended, once
\* more, object Models that end with the synthetic field, and directive Models
DeterminismWitness ==
    /\ pc = "done"
    /\ passes = 2
    /\ Len(source.iter_source) = 2
    /\ segments[1] > 0
    /\ \E i \in PassIndices :
          /\ results[i].builder = "parse_object"
          /\ Len(results[i].fields) >= 3
          /\ IsSynthetic(results[i].fields[Len(results[i].fields)])
          /\ results[i - segments[1]] = results[i]
    /\ \E i \in PassIndices : results[i].builder = "_parse_directives"

----------------------------------------------------------------------------
(* C22 *)

\* the Reference _resolve_types gives a type of the source at hand
TypeReferenceOf(t) ==
    Reference(TypePath(source.iter_source[src_index].path_parts, t.kind, t.name), t.name, t.name)

\* while the builders and the directive extractor run on a source, every type classified
\* from it was registered in this pass, and until the directives are extracted the table
\* holds its Reference
RegisteredBeforeBuild ==
    pc \in {"build", "directives"} =>
        \A t \in ClassifiedTypes(raw_obj) :
            /\ CreatedFor(src_index, "type", t.name) # {}
            /\ t.name \in DOMAIN references
            /\ references[t.name] = TypeReferenceOf(t)

\* a builder step resolves every field that names a classified type of the source at
\* hand to the Reference the table holds for it
FieldsResolvedToRegistered ==
    (BuilderStep /\ BuiltObject.kind \in ObjectLikeKinds) =>
        \A i \in DOMAIN BuiltObject.fields :
            \A t \in ClassifiedTypes(raw_obj) :
                t.name = BuiltObject.fields[i].type.name =>
                    /\ LeafOf(BuiltModel.fields[i]).reference = TypeReferenceOf(t)
                    /\ LeafOf(BuiltModel.fields[i]).type = None

\* C22: registration and translation are separated by a phase barrier: for each source,
\* every named type classified from it has its Reference in the table before the first
\* builder is called for that source and while the builders run, so a field that names
\* such a type is never translated before the type was registered.
PhaseBarrier ==
    []RegisteredBeforeBuild /\ [][FieldsResolvedToRegistered]_vars

\* the types of the second source of a group were registered and none of its Models was
\* built yet: the first builder call of the source is next
PhaseBarrierWitness ==
    /\ pc = "build"
    /\ src_index = 2
    /\ Len(segments) = 2
    /\ Len(results) = segments[2]
    /\ \E t \in ClassifiedTypes(raw_obj) :
          /\ t.kind = TypeKind_OBJECT
          /\ \E f \in Range(t.fields) : f.type.kind = TypeKind_ENUM
          /\ references[t.name].path = TypePath(<<"a.graphql">>, TypeKind_OBJECT, t.name)

----------------------------------------------------------------------------
(* C23 *)

\* the names a schema document brings: its declared types and directives and the
\* built-in scalars it uses (String and Boolean always)
NamesOfDocument(doc) ==
    {t.name : t \in Range(doc.types)} \cup {d.name : d \in Range(doc.directives)}
    \cup (ReferencedNames(doc.types, doc.directives) \cap builtin_scalars)
    \cup {"String", "Boolean"}

\* the names that sources k+1.. of the parser bring and sources 1..k do not
LaterOnlyNames(k) ==
    UNION {NamesOfDocument(source.iter_source[j].text) : j \in (k + 1)..Len(source.iter_source)}
    \ UNION {NamesOfDocument(source.iter_source[j].text) : j \in 1..k}

\* the last Reference the pass constructed under a name
LatestCreated(name) ==
    LET idx == {i \in DOMAIN created : created[i].name = name}
    IN created[CHOOSE i \in idx : \A j \in idx : j <= i].ref

\* while source k is translated the table has an entry for every name registered from
\* sources 1..k, which is the latest Reference constructed under the name, and no entry
\* for a name that only a later source brings
TableAccumulates ==
    pc \in {"build", "directives"} =>
        /\ \A i \in DOMAIN created :
              /\ created[i].src \in 1..src_index
              /\ created[i].name \in DOMAIN references
              /\ references[created[i].name] = LatestCreated(created[i].name)
        /\ \A j \in 1..src_index :
              \E i \in DOMAIN created : created[i].src = j /\ created[i].decl = "type"
        /\ DOMAIN references = {created[i].name : i \in DOMAIN created}
        /\ \A n \in LaterOnlyNames(src_index) : n \notin DOMAIN references

\* a step of a pass leaves the Models that are in results in place, unchanged
ResultsKept ==
    pc \in {"resolve", "build", "directives"} =>
        /\ Len(results') >= Len(results)
        /\ SubSeq(results', 1, Len(results)) = results

----------------------------------------------------------------------------
(* C24 *)

HasReference(node) == node.reference # NoReference

HasRawType(node) == node.type # None

\* C24: in every type descriptor parse_field returns, the leaf node carries either a
\* reference or a raw type, never both and never neither (the reference of the table
\* when the table has the named type, the name of the type otherwise), no node above
\* the leaf carries a reference or a raw type, and there are as many nested levels as
\* list wrappers in the declared type.
LeafExclusive ==
    fpc = "returned" =>
        LET nodes == fout[1].data_type
            leaf == nodes[Len(nodes)]
            type == fin[1].field.type
        IN /\ HasReference(leaf) # HasRawType(leaf)
           /\ IF type.name \in DOMAIN fin[1].references
              THEN leaf.reference = fin[1].references[type.name]
              ELSE leaf.type = type.name
           /\ \A j \in 1..(Len(nodes) - 1) : ~HasReference(nodes[j]) /\ ~HasRawType(nodes[j])
           /\ Len(nodes) - 1 = Len(ListPositions(type.wrappers))

\* parse_field returned the descriptor of a list of lists of a custom scalar that the
\* table does not have
LeafExclusiveWitness ==
    /\ fpc = "returned"
    /\ Len(ListPositions(fin[1].field.type.wrappers)) = 2
    /\ fin[1].field.type.name = "Email"
    /\ Len(fout[1].data_type) = 3
    /\ fout[1].data_type[3].type = "Email"
    /\ ~HasReference(fout[1].data_type[3])

----------------------------------------------------------------------------
(* C25 *)

\* the identifier a schema name sanitizes to when no identifier is in use yet
Sanitized(name) == get_valid_field_name(name, {})

\* two of the declared fields or arguments sanitize to the same identifier
Collide(decls) ==
    \E i, j \in DOMAIN decls : i < j /\ Sanitized(decls[i].name) = Sanitized(decls[j].name)

\* the first n field records are those of the declarations, one each and in order, under
\* pairwise different identifiers: a declaration keeps its sanitized identifier unless an
\* earlier field of the build has it, and its schema name stays recoverable
BuiltApart(fields, decls) ==
    /\ Len(fields) >= Len(decls)
    /\ \A i \in DOMAIN decls :
          /\ SchemaName(fields[i]) = decls[i].name
          /\ \A j \in 1..(i - 1) : fields[j].name # fields[i].name
          /\ (\A j \in 1..(i - 1) : fields[j].name # Sanitized(decls[i].name))
                => fields[i].name = Sanitized(decls[i].name)

\* C25: when two declared field names of an object, interface or input type, or two
\* argument names of a directive, sanitize to the same identifier, the build gives the
\* later one a different identifier: as many fields are built as are declared (plus the
\* synthetic one of a type), none is dropped, and no error is raised.
CollisionsResolved ==
    [][/\ (pc = "build" /\ BuiltObject.kind \in ObjectLikeKinds /\ Collide(BuiltObject.fields)) =>
            /\ pc' # "raised"
            /\ Len(results') = Len(results) + 1
            /\ Len(BuiltModel.fields) = Len(BuiltObject.fields) + 1
            /\ BuiltApart(BuiltModel.fields, BuiltObject.fields)
       /\ (/\ pc = "directives"
           /\ config.data_model_directive_type # NoType
           /\ \E j \in DOMAIN ExtractedDirectives : Collide(ExtractedDirectives[j].args)) =>
            /\ pc' # "raised"
            /\ Len(ExtractedModels) = Len(ExtractedDirectives)
            /\ \A j \in DOMAIN ExtractedDirectives :
                  /\ Len(ExtractedModels[j].fields) = Len(ExtractedDirectives[j].args)
                  /\ BuiltApart(ExtractedModels[j].fields, ExtractedDirectives[j].args)
      ]_vars

\* a finished pass over type Clash { in in_ }, input ClashInput { from from_ } and
\* directive @clash(from, from_): each pair of names sanitizes to one identifier
CollisionsResolvedWitness ==
    /\ pc = "done"
    /\ \E i \in PassIndices :
          /\ results[i].builder = "parse_object"
          /\ FieldNames(results[i]) = <<"in_", "in__1", "typename__">>
          /\ results[i].fields[2].alias = "in_"
    /\ \E i \in PassIndices :
          /\ results[i].builder = "parse_input_object"
          /\ FieldNames(results[i]) = <<"from_", "from__1", "typename__">>
    /\ \E i \in PassIndices :
          /\ results[i].builder = "_parse_directives"
          /\ FieldNames(results[i]) = <<"from_", "from__1">>
          /\ results[i].fields[2].alias = "from_"

----------------------------------------------------------------------------
(* C26 *)

\* a directive argument and an input field are declared with the same name, type and
\* default (the class of the declaration apart)
SameDeclaration(arg, field) ==
    /\ arg.name = field.name
    /\ arg.type = field.type
    /\ arg.default_value = field.default_value

\* the declarations of the two lists agree up to position i
AgreeUpTo(args, fields, i) ==
    /\ i <= Len(args)
    /\ i <= Len(fields)
    /\ \A x \in 1..i : SameDeclaration(args[x], fields[x])

\* the input Models in results that were built from an input object type
InputModelsOf(t) ==
    {i \in DOMAIN results :
        /\ results[i].builder = "parse_input_object"
        /\ results[i].reference.original_name = t.name
        /\ Len(results[i].fields) = Len(t.fields) + 1
        /\ \A x \in DOMAIN t.fields : SchemaName(results[i].fields[x]) = t.fields[x].name}

\* C26: a directive argument is translated exactly like an input field: where the
\* arguments of a directive and the fields of an input object are declared with the
\* same names, types and defaults, the field record built for the argument equals the
\* one built for the input field (identifier, alias, type descriptor, required, default
\* and nullability).
ArgumentsLikeInputFields ==
    [][DirectiveStep =>
          \A j \in DOMAIN ExtractedDirectives :
              \A t \in Range(support_graphql_types[TypeKind_INPUT_OBJECT]) :
                  \A m \in InputModelsOf(t) :
                      \A i \in DOMAIN ExtractedDirectives[j].args :
                          AgreeUpTo(ExtractedDirectives[j].args, t.fields, i) =>
                              ExtractedModels[j].fields[i] = results[m].fields[i]]_vars

----------------------------------------------------------------------------
(* C27 *)

\* the type descriptor is empty: one node without reference, raw type, literals or list
EmptyDescriptor(data_type) ==
    /\ Len(data_type) = 1
    /\ ~HasReference(data_type[1])
    /\ ~HasRawType(data_type[1])
    /\ ~data_type[1].is_list
    /\ data_type[1].literals = <<>>

\* C27: the union builder appends, for a union type, one Model of the union
\* implementation with exactly one field per member type, named after the member type
\* and with an empty type descriptor, and with no synthetic discriminator field.
UnionMembers ==
    [][(BuilderStep /\ BuiltObject.kind = TypeKind_UNION) =>
          /\ BuiltModel.builder = "parse_union"
          /\ BuiltModel.impl = config.data_model_union_type
          /\ BuiltModel.reference = references[BuiltObject.name]
          /\ Len(BuiltModel.fields) = Len(BuiltObject.types)
          /\ \A i \in DOMAIN BuiltObject.types :
                /\ BuiltModel.fields[i].name = BuiltObject.types[i]
                /\ BuiltModel.fields[i].alias = None
                /\ EmptyDescriptor(BuiltModel.fields[i].data_type)
          /\ \A t \in DeclarationsOf(BuiltObject) :
                /\ Len(BuiltModel.fields) = Len(t.types)
                /\ Range(FieldNames(BuiltModel)) = Range(t.types)
          /\ SyntheticCount(BuiltModel) = 0
          /\ \A x \in DOMAIN BuiltModel.fields : BuiltModel.fields[x].name # "typename__"]_vars

\* the union Model of union Found = Other | Clash was appended
UnionMembersWitness ==
    \E i \in PassIndices :
        /\ results[i].builder = "parse_union"
        /\ results[i].reference.original_name = "Found"
        /\ Range(FieldNames(results[i])) = {"Other", "Clash"}
        /\ Len(results[i].fields) = 2

----------------------------------------------------------------------------
(* C28 *)

\* the field records of the Models in results
FieldRecords == UNION {Range(results[i].fields) : i \in DOMAIN results}

\* C28: the field property of a Strawberry field is None exactly when the field has no
\* alias; for an aliased field it is strawberry.field(name='<alias>'), with
\* default=<represented default> added exactly when the field has a default whose
\* representation is not empty and not 'None'.
StrawberryFieldProperty ==
    config.data_model_field_type = "strawberry.DataModelField" =>
        \A f \in FieldRecords :
            LET call == strawberry_field(f, results)
                shown == represented_default(f, results)
                with_default == f.default # None /\ shown \notin {"", "None"}
            IN /\ (call = None) <=> (f.alias = None)
               /\ (f.alias # None /\ with_default) =>
                     call = "strawberry.field(name='" \o f.alias \o "', default=" \o shown \o ")"
               /\ (f.alias # None /\ ~with_default) =>
                     call = "strawberry.field(name='" \o f.alias \o "')"

\* a Strawberry parser built the input Model of input ClashInput { from: Int  from_: Int!
\* = 1 }: a renamed field without default, one with default 1, the synthetic field with
\* its literal, and next to it an object Model with a field that kept its name
StrawberryFieldPropertyWitness ==
    /\ config.data_model_field_type = "strawberry.DataModelField"
    /\ \E i \in DOMAIN results :
          /\ results[i].builder = "parse_input_object"
          /\ Len(results[i].fields) = 3
          /\ strawberry_field(results[i].fields[1], results) = "strawberry.field(name='from')"
          /\ strawberry_field(results[i].fields[2], results)
                = "strawberry.field(name='from_', default=1)"
          /\ strawberry_field(results[i].fields[3], results)
                = "strawberry.field(name='__typename', default='ClashInput')"
    /\ \E i \in DOMAIN results :
          /\ results[i].builder = "parse_object"
          /\ results[i].fields[1].name = "typename__"
          /\ strawberry_field(results[i].fields[1], results) = None

----------------------------------------------------------------------------
(* C29 *)

\* C29: in every object, interface and input Model the field identifiers are pairwise
\* distinct, the synthetic typename__ field counted with the declared fields: no
\* declared field ends up with the identifier of the synthetic one.
DistinctIdentifiers ==
    \A i \in DOMAIN results :
        results[i].builder \in {"parse_interface", "parse_object", "parse_input_object"} =>
            /\ DistinctFieldNames(results[i])
            /\ \A x \in 1..(Len(results[i].fields) - 1) :
                  results[i].fields[x].name # results[i].fields[Len(results[i].fields)].name

====
